---- MODULE Spec2Model ----
(***************************************************************************)
(* Date normalisation and historical-period classification of the          *)
(* DisperseArt cleaning scripts:                                           *)
(*   src/data_stolen/5_add_category_period.py                              *)
(*   src/data_stolen/add_period_categories.py                              *)
(*   src/data_hermitage/clean_hermitage_dataset.py                         *)
(*   src/data_stolen/2_cleaning_stolen_objects.py                          *)
(*   src/data_stolen/stolen_objects_normalization.py                       *)
(*                                                                         *)
(* A text is a sequence of characters, each character a one-character      *)
(* string (a non-ASCII character is written by its code point, "U+0425").  *)
(* Python's re module is modelled by a backtracking matcher with Python's  *)
(* priority order (greedy/lazy repetition, ordered alternation, groups).   *)
(* A Python number v is stored as the integer 4*v: every float the         *)
(* scripts compute is a multiple of 1/4.                                   *)
(***************************************************************************)
EXTENDS Integers, Sequences, FiniteSets, TLC

(***************************************************************************)
(* Characters and character classes of the re module                       *)
(***************************************************************************)
Digits == {"0", "1", "2", "3", "4", "5", "6", "7", "8", "9"}

UpperLetters == {"A", "B", "C", "D", "E", "F", "G", "H", "I", "J", "K", "L", "M",
                 "N", "O", "P", "Q", "R", "S", "T", "U", "V", "W", "X", "Y", "Z"}

LowerLetters == {"a", "b", "c", "d", "e", "f", "g", "h", "i", "j", "k", "l", "m",
                 "n", "o", "p", "q", "r", "s", "t", "u", "v", "w", "x", "y", "z"}

\* Cyrillic letters of the sources: U+0425 Kha, U+0445 kha, U+0406 I, U+0456 i,
\* U+0412 Ve, U+0421 Es, U+041C Em, U+0443 u, U+0433 ghe, U+0413 Ghe; and U+00D0 Eth,
\* the first character of the mojibake keys of cyrillic_map
CyrillicLetters == {"U+0425", "U+0445", "U+0406", "U+0456", "U+0412", "U+0421",
                    "U+041C", "U+0443", "U+0433", "U+0413", "U+00D0"}

\* \s
WS == {" ", "\t", "\n"}

\* \w; U+00C4 A with diaeresis, U+00EC i with grave and U+00EE i with circumflex
\* are the letters of the mis-decoded dashes in the patterns of normalize_date
WordChars == Digits \cup UpperLetters \cup LowerLetters \cup CyrillicLetters \cup {"_"}
             \cup {"U+00C4", "U+00E4", "U+00EC", "U+00CC", "U+00EE", "U+00CE"}

\* U+2013 en dash, U+2012 figure dash, U+2014 em dash, U+2212 minus sign
\* U+00A5 yen sign and U+2020 dagger (second characters of the mojibake keys)
\* U+201A low quotation mark (first character of the mis-decoded dashes)
Punct == {"-", "/", ".", ",", "U+2013", "U+2012", "U+2014", "U+2212", "U+00A5", "U+2020",
          "U+201A", "+"}

\* .   (any character but the newline)
AnyChar == (WordChars \cup WS \cup Punct) \ {"\n"}

\* str.upper() / str.lower() on one character
UpperOf == [c \in LowerLetters |->
              CASE c = "a" -> "A" [] c = "b" -> "B" [] c = "c" -> "C" [] c = "d" -> "D"
                [] c = "e" -> "E" [] c = "f" -> "F" [] c = "g" -> "G" [] c = "h" -> "H"
                [] c = "i" -> "I" [] c = "j" -> "J" [] c = "k" -> "K" [] c = "l" -> "L"
                [] c = "m" -> "M" [] c = "n" -> "N" [] c = "o" -> "O" [] c = "p" -> "P"
                [] c = "q" -> "Q" [] c = "r" -> "R" [] c = "s" -> "S" [] c = "t" -> "T"
                [] c = "u" -> "U" [] c = "v" -> "V" [] c = "w" -> "W" [] c = "x" -> "X"
                [] c = "y" -> "Y" [] c = "z" -> "Z"]
             @@ ("U+0445" :> "U+0425") @@ ("U+0456" :> "U+0406")
             @@ ("U+0433" :> "U+0413")
             @@ ("U+00E4" :> "U+00C4") @@ ("U+00EC" :> "U+00CC") @@ ("U+00EE" :> "U+00CE")

ToUpperChar(c) == IF c \in DOMAIN UpperOf THEN UpperOf[c] ELSE c

LowerOf == [u \in {UpperOf[l] : l \in DOMAIN UpperOf} |->
              CHOOSE l \in DOMAIN UpperOf : UpperOf[l] = u]

ToLowerChar(c) == IF c \in DOMAIN LowerOf THEN LowerOf[c] ELSE c

\* str.lower()
Lower(s) == [i \in 1..Len(s) |-> ToLowerChar(s[i])]

\* str.upper()
Upper(s) == [i \in 1..Len(s) |-> ToUpperChar(s[i])]

\* one character against a class, under re.IGNORECASE when ic
InClass(c, cs, ic) ==
    \/ c \in cs
    \/ ic /\ (ToUpperChar(c) \in cs \/ ToLowerChar(c) \in cs)

(***************************************************************************)
(* Pattern items.  A pattern is a sequence of items.                       *)
(***************************************************************************)
Item(t, cs, lo, hi, greedy, subs, g) ==
    [t |-> t, cs |-> cs, lo |-> lo, hi |-> hi, greedy |-> greedy, subs |-> subs, g |-> g]

\* [cs]{lo,hi}; hi = -1 is no upper limit
Rep(cs, lo, hi)     == <<Item("rep", cs, lo, hi, TRUE, <<>>, 0)>>
\* [cs]{lo,hi}?
RepLazy(cs, lo, hi) == <<Item("rep", cs, lo, hi, FALSE, <<>>, 0)>>
Star(cs)     == Rep(cs, 0, -1)
Plus(cs)     == Rep(cs, 1, -1)
Maybe(cs)    == Rep(cs, 0, 1)
One(cs)      == Rep(cs, 1, 1)
\* a literal text
Lit(w)       == [i \in 1..Len(w) |-> Item("rep", {w[i]}, 1, 1, TRUE, <<>>, 0)]
\* p1|p2|...
Alt(ps)      == <<Item("alt", {}, 0, 0, TRUE, ps, 0)>>
\* (?:p)?
Opt(p)       == Alt(<<p, <<>>>>)
\* (p) as capturing group g
Grp(g, p)    == <<Item("open", {}, 0, 0, TRUE, <<>>, g)>> \o p
                \o <<Item("close", {}, 0, 0, TRUE, <<>>, g)>>
\* ^  $  \b  (?!p)
Bol          == <<Item("bol", {}, 0, 0, TRUE, <<>>, 0)>>
Eol          == <<Item("eol", {}, 0, 0, TRUE, <<>>, 0)>>
WB           == <<Item("wb", {}, 0, 0, TRUE, <<>>, 0)>>
NotAhead(p)  == <<Item("nla", {}, 0, 0, TRUE, <<p>>, 0)>>

MaxGroups == 6

NoCaps == [g \in 1..MaxGroups |-> <<0, 0>>]

FAIL == [ok |-> FALSE, start |-> 0, end |-> 0, caps |-> NoCaps]

\* the value v under the name of the parameter of F: a local variable that is
\* assigned once
With(v, F(_)) == F(v)

\* the first position of lo..hi of s whose character is not in cs, hi + 1 when
\* there is none (the range is halved, so that a long text nests few calls)
RECURSIVE FirstStop(_, _, _, _, _)
FirstStop(s, lo, hi, cs, ic) ==
    IF lo > hi THEN lo
    ELSE IF lo = hi THEN (IF InClass(s[lo], cs, ic) THEN lo + 1 ELSE lo)
    ELSE With(FirstStop(s, lo, (lo + hi) \div 2, cs, ic), LAMBDA stop :
            IF stop <= (lo + hi) \div 2 THEN stop
            ELSE FirstStop(s, (lo + hi) \div 2 + 1, hi, cs, ic))

\* number of consecutive characters of s from position i that are in cs, at
\* most hi (no limit when hi < 0)
Run(s, i, cs, hi, ic) ==
    FirstStop(s, i, IF hi < 0 \/ i + hi - 1 > Len(s) THEN Len(s) ELSE i + hi - 1, cs, ic) - i

IsWordAt(s, i) == i >= 1 /\ i <= Len(s) /\ s[i] \in WordChars

\* the match r when it succeeded, and otherwise the next attempt
FirstOk(r, other) == IF r.ok THEN r ELSE other

\* the backtracking matcher: the first way, in the priority order of re, to
\* match pattern p on s from position i
RECURSIVE M(_, _, _, _, _), TryDown(_, _, _, _, _, _, _), TryUp(_, _, _, _, _, _, _),
          TryAlts(_, _, _, _, _, _, _)
M(p, s, i, caps, ic) ==
    IF p = <<>> THEN [ok |-> TRUE, start |-> 0, end |-> i, caps |-> caps]
    ELSE LET it   == Head(p)
             rest == Tail(p)
         IN CASE it.t = "rep" ->
                   IF it.hi = 1 /\ it.lo = 1
                   THEN IF i <= Len(s) /\ InClass(s[i], it.cs, ic)
                        THEN M(rest, s, i + 1, caps, ic) ELSE FAIL
                   ELSE LET n == Run(s, i, it.cs, it.hi, ic)
                        IN IF n < it.lo THEN FAIL
                           ELSE IF it.greedy THEN TryDown(rest, s, i, caps, ic, n, it.lo)
                                ELSE TryUp(rest, s, i, caps, ic, it.lo, n)
              [] it.t = "open"  -> M(rest, s, i, [caps EXCEPT ![it.g] = <<i, 0>>], ic)
              [] it.t = "close" -> M(rest, s, i, [caps EXCEPT ![it.g] = <<caps[it.g][1], i>>], ic)
              [] it.t = "alt"   -> TryAlts(it.subs, 1, rest, s, i, caps, ic)
              [] it.t = "bol"   -> IF i = 1 THEN M(rest, s, i, caps, ic) ELSE FAIL
              [] it.t = "eol"   -> IF i = Len(s) + 1 \/ (i = Len(s) /\ s[i] = "\n")
                                   THEN M(rest, s, i, caps, ic) ELSE FAIL
              [] it.t = "wb"    -> IF IsWordAt(s, i - 1) # IsWordAt(s, i)
                                   THEN M(rest, s, i, caps, ic) ELSE FAIL
              [] it.t = "nla"   -> IF M(it.subs[1], s, i, caps, ic).ok THEN FAIL
                                   ELSE M(rest, s, i, caps, ic)

\* the lengths n, n - 1, ..., lo of a greedy repetition in this order, the
\* upper half of the range before the lower half
TryDown(rest, s, i, caps, ic, n, lo) ==
    IF n = lo THEN M(rest, s, i + n, caps, ic)
    ELSE FirstOk(TryDown(rest, s, i, caps, ic, n, (lo + n + 1) \div 2),
                 TryDown(rest, s, i, caps, ic, (lo + n + 1) \div 2 - 1, lo))

\* the lengths n, n + 1, ..., hi of a lazy repetition in this order
TryUp(rest, s, i, caps, ic, n, hi) ==
    IF n = hi THEN M(rest, s, i + n, caps, ic)
    ELSE FirstOk(TryUp(rest, s, i, caps, ic, n, (n + hi) \div 2),
                 TryUp(rest, s, i, caps, ic, (n + hi) \div 2 + 1, hi))

TryAlts(ps, k, rest, s, i, caps, ic) ==
    IF k > Len(ps) THEN FAIL
    ELSE FirstOk(M(ps[k] \o rest, s, i, caps, ic), TryAlts(ps, k + 1, rest, s, i, caps, ic))

\* re.match(p, s)
ReMatch(p, s, ic) == [M(p, s, 1, NoCaps, ic) EXCEPT !.start = 1]

\* re.search(p, s): the leftmost position where p matches
RECURSIVE SearchFrom(_, _, _, _, _)
SearchFrom(p, s, lo, hi, ic) ==
    IF lo = hi THEN FirstOk([M(p, s, lo, NoCaps, ic) EXCEPT !.start = lo], FAIL)
    ELSE FirstOk(SearchFrom(p, s, lo, (lo + hi) \div 2, ic),
                 SearchFrom(p, s, (lo + hi) \div 2 + 1, hi, ic))

ReSearch(p, s, ic) == SearchFrom(p, s, 1, Len(s) + 1, ic)

\* m.group(g); None is the empty text with HasGroup false
HasGroup(m, g) == m.caps[g] # <<0, 0>>
Group(m, s, g) == IF HasGroup(m, g) THEN SubSeq(s, m.caps[g][1], m.caps[g][2] - 1) ELSE <<>>

\* a replacement text of re.sub: literal text and group references \1, \2
TLit(w) == <<[g |-> 0, lit |-> w]>>
TGrp(g) == <<[g |-> g, lit |-> <<>>]>>

\* the replacement text for the match m
RECURSIVE Expand(_, _, _)
Expand(tpl, m, s) ==
    IF tpl = <<>> THEN <<>>
    ELSE (IF Head(tpl).g = 0 THEN Head(tpl).lit ELSE Group(m, s, Head(tpl).g))
         \o Expand(Tail(tpl), m, s)

\* s from position pos on, with every match of p replaced: the matches are
\* taken from the left and do not overlap, each search starts where the match
\* before it ended (behind an empty match the next character is copied)
RECURSIVE SubFrom(_, _, _, _, _)
SubFrom(p, tpl, s, pos, ic) ==
    With(SearchFrom(p, s, pos, Len(s) + 1, ic), LAMBDA m :
        IF ~m.ok THEN SubSeq(s, pos, Len(s))
        ELSE SubSeq(s, pos, m.start - 1) \o Expand(tpl, m, s)
             \o (IF m.end > m.start THEN SubFrom(p, tpl, s, m.end, ic)
                 ELSE IF m.start > Len(s) THEN <<>>
                 ELSE <<s[m.start]>> \o SubFrom(p, tpl, s, m.start + 1, ic)))

\* re.sub(p, tpl, s)
ReSub(p, tpl, s, ic) == SubFrom(p, tpl, s, 1, ic)

(***************************************************************************)
(* str helpers                                                             *)
(***************************************************************************)
\* sub in s
ContainsFrom(s, sub, i) ==
    \E j \in i..(Len(s) - Len(sub) + 1) : SubSeq(s, j, j + Len(sub) - 1) = sub

Contains(s, sub) == ContainsFrom(s, sub, 1)

\* str.strip()
RECURSIVE LStrip(_), RStrip(_)
LStrip(s) == IF s # <<>> /\ Head(s) \in WS THEN LStrip(Tail(s)) ELSE s
RStrip(s) == IF s # <<>> /\ s[Len(s)] \in WS THEN RStrip(SubSeq(s, 1, Len(s) - 1)) ELSE s
Strip(s) == RStrip(LStrip(s))

\* str.replace(old, new)
\* the positions of s where old stands
Occurrences(s, old) ==
    {i \in 1..(Len(s) - Len(old) + 1) : SubSeq(s, i, i + Len(old) - 1) = old}

\* the occurrences are replaced from the left, each search starting behind the
\* occurrence before it
RECURSIVE Replace(_, _, _)
Replace(s, old, new) ==
    With(Occurrences(s, old), LAMBDA found :
        IF found = {} THEN s
        ELSE With(CHOOSE i \in found : \A j \in found : i <= j, LAMBDA first :
                SubSeq(s, 1, first - 1) \o new
                \o Replace(SubSeq(s, first + Len(old), Len(s)), old, new)))

DigitVal == [c \in Digits |->
               CASE c = "0" -> 0 [] c = "1" -> 1 [] c = "2" -> 2 [] c = "3" -> 3
                 [] c = "4" -> 4 [] c = "5" -> 5 [] c = "6" -> 6 [] c = "7" -> 7
                 [] c = "8" -> 8 [] c = "9" -> 9]

\* int(text) for a text of digits
RECURSIVE ToInt(_)
ToInt(s) == IF s = <<>> THEN 0 ELSE 10 * ToInt(SubSeq(s, 1, Len(s) - 1)) + DigitVal[s[Len(s)]]

\* the largest float, sys.float_info.max = 1.797...e308, has FloatDigits digits
FloatDigits == 309

\* int / int, line 493 and the like: a number of more than FloatDigits digits
\* is at least 10^309, and the true division of ints raises OverflowError
\* ("integer division result too large for a float") when its result is
\* beyond the largest float
TooLargeForFloat(digits) ==
    Len(digits) - Run(digits, 1, {"0"}, -1, FALSE) > FloatDigits

\* str(n) for one digit
DigitChar == [n \in 0..9 |->
                CASE n = 0 -> "0" [] n = 1 -> "1" [] n = 2 -> "2" [] n = 3 -> "3" [] n = 4 -> "4"
                  [] n = 5 -> "5" [] n = 6 -> "6" [] n = 7 -> "7" [] n = 8 -> "8" [] n = 9 -> "9"]

\* str(n), as f"{int(year)}" writes it, 0 <= n
RECURSIVE Decimal(_)
Decimal(n) == IF n < 10 THEN <<DigitChar[n]>> ELSE Decimal(n \div 10) \o <<DigitChar[n % 10]>>

Sp == <<" ">>

(***************************************************************************)
(* Words and numerals of the patterns                                      *)
(***************************************************************************)
Word == [end |-> <<"e", "n", "d">>,
    ending |-> <<"e", "n", "d", "i", "n", "g">>,
    late |-> <<"l", "a", "t", "e">>,
    early |-> <<"e", "a", "r", "l", "y">>,
    beginning |-> <<"b", "e", "g", "i", "n", "n", "i", "n", "g">>,
    start |-> <<"s", "t", "a", "r", "t">>,
    middle |-> <<"m", "i", "d", "d", "l", "e">>,
    mid |-> <<"m", "i", "d">>,
    of |-> <<"o", "f">>,
    the |-> <<"t", "h", "e">>,
    first |-> <<"f", "i", "r", "s", "t">>,
    second |-> <<"s", "e", "c", "o", "n", "d">>,
    third |-> <<"t", "h", "i", "r", "d">>,
    fourth |-> <<"f", "o", "u", "r", "t", "h">>,
    last |-> <<"l", "a", "s", "t">>,
    quarter |-> <<"q", "u", "a", "r", "t", "e", "r">>,
    half |-> <<"h", "a", "l", "f">>,
    century |-> <<"c", "e", "n", "t", "u", "r", "y">>,
    centurie |-> <<"c", "e", "n", "t", "u", "r", "i", "e">>,
    millennium |-> <<"m", "i", "l", "l", "e", "n", "n", "i", "u", "m">>,
    thousand |-> <<"t", "h", "o", "u", "s", "a", "n", "d">>,
    year |-> <<"y", "e", "a", "r">>,
    ago |-> <<"a", "g", "o">>,
    st |-> <<"s", "t">>,
    nd |-> <<"n", "d">>,
    rd |-> <<"r", "d">>,
    th |-> <<"t", "h">>,
    or |-> <<"o", "r">>,
    cent |-> <<"c", "e", "n", "t">>,
    BC |-> <<"B", "C">>,
    AD |-> <<"A", "D">>,
    second_half |-> <<"s", "e", "c", "o", "n", "d", " ", "h", "a", "l", "f">>,
    first_half |-> <<"f", "i", "r", "s", "t", " ", "h", "a", "l", "f">>,
    BC_cyr |-> <<"U+0412", "U+0421">>,
    g |-> <<"U+0433">>]
\* U+0412 U+0421, the Cyrillic spelling of BC
\* U+0433, the Russian abbreviation of "year"

Numeral == [I |-> <<"I">>,
    II |-> <<"I", "I">>,
    III |-> <<"I", "I", "I">>,
    IV |-> <<"I", "V">>,
    V |-> <<"V">>,
    VI |-> <<"V", "I">>,
    VII |-> <<"V", "I", "I">>,
    VIII |-> <<"V", "I", "I", "I">>,
    IX |-> <<"I", "X">>,
    X |-> <<"X">>,
    XI |-> <<"X", "I">>,
    XII |-> <<"X", "I", "I">>,
    XIII |-> <<"X", "I", "I", "I">>,
    XIV |-> <<"X", "I", "V">>,
    XV |-> <<"X", "V">>,
    XVI |-> <<"X", "V", "I">>,
    XVII |-> <<"X", "V", "I", "I">>,
    XVIII |-> <<"X", "V", "I", "I", "I">>,
    XIX |-> <<"X", "I", "X">>,
    XX |-> <<"X", "X">>]

\* [IVX]
IVX == {"I", "V", "X"}
\* [-U+2013]
Dash2 == {"-", "U+2013"}

(***************************************************************************)
(* 5_add_category_period.py: extract_year_from_date                        *)
(***************************************************************************)
\* the dict century_patterns, in its insertion order
century_order == <<Numeral.XX, Numeral.XIX, Numeral.XVIII, Numeral.XVII, Numeral.XVI, Numeral.XV, Numeral.XIV, Numeral.XIII, Numeral.XII, Numeral.XI,
                   Numeral.X, Numeral.IX, Numeral.VIII, Numeral.VII, Numeral.VI, Numeral.V, Numeral.IV, Numeral.III, Numeral.II, Numeral.I>>

century_patterns == [r \in {century_order[k] : k \in 1..Len(century_order)} |->
                       CASE r = Numeral.XX -> 1950 [] r = Numeral.XIX -> 1850 [] r = Numeral.XVIII -> 1750
                         [] r = Numeral.XVII -> 1650 [] r = Numeral.XVI -> 1550 [] r = Numeral.XV -> 1450
                         [] r = Numeral.XIV -> 1350 [] r = Numeral.XIII -> 1250 [] r = Numeral.XII -> 1150
                         [] r = Numeral.XI -> 1050 [] r = Numeral.X -> 950 [] r = Numeral.IX -> 850
                         [] r = Numeral.VIII -> 750 [] r = Numeral.VII -> 650 [] r = Numeral.VI -> 550
                         [] r = Numeral.V -> 450 [] r = Numeral.IV -> 350 [] r = Numeral.III -> 250
                         [] r = Numeral.II -> 150 [] r = Numeral.I -> 50]

millennium_map == [r \in {Numeral.I, Numeral.II, Numeral.III, Numeral.IV, Numeral.V, Numeral.VI, Numeral.VII, Numeral.VIII, Numeral.IX, Numeral.X} |->
                     CASE r = Numeral.I -> 1 [] r = Numeral.II -> 2 [] r = Numeral.III -> 3 [] r = Numeral.IV -> 4
                       [] r = Numeral.V -> 5 [] r = Numeral.VI -> 6 [] r = Numeral.VII -> 7 [] r = Numeral.VIII -> 8
                       [] r = Numeral.IX -> 9 [] r = Numeral.X -> 10]

\* normalize_cyrillic_to_latin: the replacements of cyrillic_map, in order
\* (the two mojibake keys are the two-character texts U+00D0 U+00A5 and
\* U+00D0 U+2020)
cyrillic_map == << <<(<<"U+0425">>), (<<"X">>)>>, <<(<<"U+0445">>), (<<"x">>)>>,
                   <<(<<"U+0406">>), (<<"I">>)>>, <<(<<"U+0456">>), (<<"i">>)>>,
                   <<(<<"U+0412">>), (<<"B">>)>>, <<(<<"U+0421">>), (<<"C">>)>>,
                   <<(<<"U+041C">>), (<<"M">>)>>,
                   <<(<<"U+00D0", "U+00A5">>), (<<"X">>)>>,
                   <<(<<"U+00D0", "U+2020">>), (<<"I">>)>>,
                   <<(<<"U+0443">>), (<<"y">>)>> >>

RECURSIVE ReplaceAll(_, _, _)
ReplaceAll(text, map, k) ==
    IF k > Len(map) THEN text
    ELSE ReplaceAll(Replace(text, map[k][1], map[k][2]), map, k + 1)

\* a missing value (NaN/None)
ABSENT == <<"NaN">>

\* normalize_cyrillic_to_latin with its replacements left out
normalize_cyrillic_to_latin_unchanged(text) == text

normalize_cyrillic_to_latin(text) ==
    IF text = ABSENT \/ text = <<>> THEN text ELSE ReplaceAll(text, cyrillic_map, 1)

\* A result of a recognizer: the rule that returned and 4 * the value;
\* rule "none" is no return (None at the end of the cascade)
NONE == [rule |-> "none", val |-> 0]
Ret(rule, v4) == [rule |-> rule, val |-> v4]

\* the function was left by an OverflowError that nothing catches
RAISED == [rule |-> "OverflowError", val |-> 0]

\* the result r of a recognizer when it returned (or raised), and otherwise the
\* rest of the function
FirstReturn(r, other) == IF r.rule # "none" THEN r ELSE other
\* v, a/2 and a/4 as stored numbers
Whole(v)    == 4 * v
HalfOf(a)   == 2 * a
FourthOf(a) == a

lone_roman_match(d) ==
    LET lone_roman_re == Bol \o Grp(1, Plus(IVX)) \o Star(WS) \o Lit(<<"-">>) \o Star(WS)
            \o Grp(2, Plus(IVX)) \o Eol
    IN With(ReMatch(lone_roman_re, d, TRUE), LAMBDA m :
    LET roman1 == Group(m, d, 1)
        roman2 == Group(m, d, 2)
    IN IF m.ok /\ Len(d) < 10
          /\ roman1 \in DOMAIN century_patterns /\ roman2 \in DOMAIN century_patterns
       THEN Ret("lone_roman_match", HalfOf(century_patterns[roman1] + century_patterns[roman2]))
       ELSE NONE)

single_roman_match(d) ==
    LET single_roman_re == Bol \o Grp(1, Plus(IVX)) \o Eol
    IN With(ReMatch(single_roman_re, d, TRUE), LAMBDA m :
    LET roman == Group(m, d, 1)
    IN IF m.ok /\ 2 <= Len(d) /\ Len(d) <= 5 /\ roman \in DOMAIN century_patterns
       THEN Ret("single_roman_match", Whole(century_patterns[roman]))
       ELSE NONE)

\* year_only_range with the integer midpoint (year1 + year2) // 2
year_only_range_floor(d) ==
    LET year_only_range_re == Bol \o Grp(1, Rep(Digits, 1, 4)) \o One(Dash2) \o Grp(2, Rep(Digits, 1, 4))
            \o Opt(Grp(3, Star(WS) \o Grp(4, Alt(<<Lit(Word.AD), Lit(Word.BC)>>)))) \o Eol
    IN With(ReMatch(year_only_range_re, d, FALSE), LAMBDA m :
    LET year1 == ToInt(Group(m, d, 1))
        year2 == ToInt(Group(m, d, 2))
        suffix == Group(m, d, 4)
    IN IF ~m.ok THEN NONE
       ELSE IF HasGroup(m, 4) /\ Contains(Upper(suffix), Word.BC)
            THEN Ret("year_only_range", -Whole((year1 + year2) \div 2))
            ELSE Ret("year_only_range", Whole((year1 + year2) \div 2)))

year_only_range(d) ==
    LET year_only_range_re == Bol \o Grp(1, Rep(Digits, 1, 4)) \o One(Dash2) \o Grp(2, Rep(Digits, 1, 4))
            \o Opt(Grp(3, Star(WS) \o Grp(4, Alt(<<Lit(Word.AD), Lit(Word.BC)>>)))) \o Eol
    IN With(ReMatch(year_only_range_re, d, FALSE), LAMBDA m :
    LET year1 == ToInt(Group(m, d, 1))
        year2 == ToInt(Group(m, d, 2))
        suffix == Group(m, d, 4)
    IN IF ~m.ok THEN NONE
       ELSE IF HasGroup(m, 4) /\ Contains(Upper(suffix), Word.BC)
            THEN Ret("year_only_range", -HalfOf(year1 + year2))
            ELSE Ret("year_only_range", HalfOf(year1 + year2)))

year_only(d) ==
    LET year_only_re == Bol \o Grp(1, Rep(Digits, 1, 3))
            \o Opt(Grp(2, Star(WS) \o Grp(3, Alt(<<Lit(Word.AD), Lit(Word.BC)>>)))) \o Eol
    IN With(ReMatch(year_only_re, d, FALSE), LAMBDA m :
    LET year == ToInt(Group(m, d, 1))
        suffix == Group(m, d, 3)
    IN IF ~m.ok THEN NONE
       ELSE IF HasGroup(m, 3) /\ Contains(Upper(suffix), Word.BC) THEN Ret("year_only", -Whole(year))
       ELSE IF year < 500 THEN Ret("year_only", Whole(year))
       ELSE NONE)

\* -v if is_bc else v
Signed(is_bc, v4) == IF is_bc THEN -v4 ELSE v4

end_range_match(d) ==
    LET end_range_re == Lit(Word.end) \o Plus(WS) \o Lit(Word.of) \o Plus(WS) \o Lit(Word.the) \o Plus(WS)
            \o Grp(1, Plus(IVX)) \o One(Dash2) \o Grp(2, Plus(IVX)) \o Star(WS)
            \o Lit(Word.centurie) \o Maybe({"s"}) \o Star(WS) \o Opt(Grp(3, Lit(Word.BC)))
    IN With(ReSearch(end_range_re, d, TRUE), LAMBDA m :
    LET roman2 == Group(m, d, 2)
        is_bc == HasGroup(m, 3)
    IN IF m.ok /\ roman2 \in DOMAIN century_patterns
       THEN Ret("end_range_match", Signed(is_bc, Whole(century_patterns[roman2] + 38)))
       ELSE NONE)

quarter_century_match(d) ==
    LET quarter_century_re == Grp(1, Plus(IVX)) \o Star(WS) \o One(Dash2) \o Star(WS)
            \o Grp(2, Alt(<<Lit(Word.second), Lit(Word.first), Lit(Word.third), Lit(Word.fourth)>>))
            \o Star(WS) \o Lit(Word.quarter) \o Star(WS) \o Grp(3, Plus(IVX)) \o Star(WS)
            \o Lit(Word.centurie) \o Maybe({"s"}) \o Star(WS) \o Opt(Grp(4, Lit(Word.BC)))
    IN With(ReSearch(quarter_century_re, d, TRUE), LAMBDA m :
    LET roman1 == Group(m, d, 1)
        quarter == Lower(Group(m, d, 2))
        roman2 == Group(m, d, 3)
        is_bc == HasGroup(m, 4)
        adj == IF Contains(quarter, Word.first) THEN -38
               ELSE IF Contains(quarter, Word.second) THEN -12
               ELSE IF Contains(quarter, Word.third) THEN 12
               ELSE IF Contains(quarter, Word.fourth) THEN 38
               ELSE 0
    IN IF m.ok /\ roman1 \in DOMAIN century_patterns /\ roman2 \in DOMAIN century_patterns
       THEN Ret("quarter_century_match",
                Signed(is_bc, HalfOf(century_patterns[roman1] + century_patterns[roman2] + adj)))
       ELSE NONE)

wrong_format(d) ==
    LET wrong_format_re == Bol \o Grp(1, Rep(Digits, 4, 4)) \o Star(WS) \o Lit(Word.century)
    IN With(ReMatch(wrong_format_re, d, TRUE), LAMBDA m :
       IF m.ok THEN Ret("wrong_format", Whole(ToInt(Group(m, d, 1)))) ELSE NONE)

century_space_range(d) ==
    LET century_space_range_re == WB \o Grp(1, Plus(IVX)) \o Star(WS) \o Maybe(Dash2) \o Star(WS)
            \o Grp(2, Plus(IVX)) \o Star(WS) \o Lit(Word.centurie) \o Maybe({"s"})
            \o Star(WS) \o Opt(Grp(3, Lit(Word.BC)))
    IN With(ReSearch(century_space_range_re, d, TRUE), LAMBDA m :
    LET roman1 == Group(m, d, 1)
        roman2 == Group(m, d, 2)
        is_bc == HasGroup(m, 3)
    IN IF m.ok /\ roman1 \in DOMAIN century_patterns /\ roman2 \in DOMAIN century_patterns
       THEN Ret("century_space_range",
                Signed(is_bc, HalfOf(century_patterns[roman1] + century_patterns[roman2])))
       ELSE NONE)

early_th_match(d) ==
    LET early_th_re == Grp(1, Alt(<<Lit(Word.early), Lit(Word.late), Lit(Word.end)>>)) \o Plus(WS)
            \o Grp(2, Plus(IVX)) \o Lit(Word.th) \o Star(WS) \o Lit(Word.century)
    IN With(ReSearch(early_th_re, d, TRUE), LAMBDA m :
    LET part == Lower(Group(m, d, 1))
        roman == Group(m, d, 2)
        base_year == century_patterns[roman]
    IN IF m.ok /\ roman \in DOMAIN century_patterns
       THEN IF Contains(part, Word.late) \/ Contains(part, Word.end)
            THEN Ret("early_th_match", Whole(base_year + 38))
            ELSE IF Contains(part, Word.early) THEN Ret("early_th_match", Whole(base_year - 38))
            ELSE Ret("early_th_match", Whole(base_year))
       ELSE NONE)

early_arabic_cent(d) ==
    LET early_arabic_cent_re == Grp(1, Alt(<<Lit(Word.early), Lit(Word.late), Lit(Word.end), Lit(Word.beginning)>>))
            \o Plus(WS) \o Grp(2, Rep(Digits, 1, 2))
            \o Grp(3, Alt(<<Lit(Word.st), Lit(Word.nd), Lit(Word.rd), Lit(Word.th)>>))
            \o Star(WS) \o Lit(Word.cent)
    IN With(ReSearch(early_arabic_cent_re, d, TRUE), LAMBDA m :
    LET part == Lower(Group(m, d, 1))
        century_num == ToInt(Group(m, d, 2))
        base_year == (century_num - 1) * 100 + 50
    IN IF ~m.ok THEN NONE
       ELSE IF Contains(part, Word.late) \/ Contains(part, Word.end)
            THEN Ret("early_arabic_cent", Whole(base_year + 38))
       ELSE IF Contains(part, Word.early) \/ Contains(part, Word.beginning)
            THEN Ret("early_arabic_cent", Whole(base_year - 38))
       ELSE Ret("early_arabic_cent", Whole(base_year)))

\* (\s*(BC|AD|U+0412 U+0421))? with the groups g and g + 1
EraSuffix(g) == Opt(Grp(g, Star(WS) \o Grp(g + 1, Alt(<<Lit(Word.BC), Lit(Word.AD), Lit(Word.BC_cyr)>>))))

\* suffix and ('BC' in suffix.upper() or 'U+0412 U+0421' in suffix)
SuffixIsBC(m, d, g) ==
    HasGroup(m, g) /\ (Contains(Upper(Group(m, d, g)), Word.BC) \/ Contains(Group(m, d, g), Word.BC_cyr))

slash_range(d) ==
    LET slash_range_re == Bol \o Grp(1, Rep(Digits, 1, 4)) \o One({"/", "U+2012", "U+2013", "-"})
            \o Grp(2, Rep(Digits, 1, 4))
            \o Opt(Grp(3, Star(WS) \o Lit(Word.g) \o Maybe({"."})))
            \o EraSuffix(4) \o Eol
    IN With(ReMatch(slash_range_re, d, FALSE), LAMBDA m :
    LET year1 == ToInt(Group(m, d, 1))
        year2 == ToInt(Group(m, d, 2))
    IN IF ~m.ok THEN NONE
       ELSE Ret("slash_range", Signed(SuffixIsBC(m, d, 5), HalfOf(year1 + year2))))

complex_slash(d) ==
    LET complex_slash_re == Bol \o Grp(1, Rep(Digits, 1, 4)) \o Lit(<<"/">>) \o Grp(2, Rep(Digits, 1, 4))
            \o One(Dash2) \o Grp(3, Rep(Digits, 1, 4)) \o Lit(<<"/">>)
            \o Grp(4, Rep(Digits, 1, 4)) \o EraSuffix(5) \o Eol
    IN With(ReMatch(complex_slash_re, d, FALSE), LAMBDA m :
    LET avg == FourthOf(ToInt(Group(m, d, 1)) + ToInt(Group(m, d, 2))
                        + ToInt(Group(m, d, 3)) + ToInt(Group(m, d, 4)))
    IN IF ~m.ok THEN NONE
       ELSE Ret("complex_slash", Signed(SuffixIsBC(m, d, 6), avg)))

or_alternative(d) ==
    LET or_alternative_re == Grp(1, Rep(Digits, 1, 4)) \o Lit(<<"/">>) \o Grp(2, Rep(Digits, 1, 4))
            \o Plus(WS) \o Lit(Word.or) \o Plus(WS)
            \o Grp(3, Rep(Digits, 1, 4)) \o Lit(<<"/">>) \o Grp(4, Rep(Digits, 1, 4))
    IN With(ReSearch(or_alternative_re, d, TRUE), LAMBDA m :
       IF ~m.ok THEN NONE
       ELSE Ret("or_alternative", FourthOf(ToInt(Group(m, d, 1)) + ToInt(Group(m, d, 2))
                                           + ToInt(Group(m, d, 3)) + ToInt(Group(m, d, 4)))))

year_g(d) ==
    LET year_g_re == Bol \o Grp(1, Rep(Digits, 1, 4)) \o Star(WS) \o Lit(Word.g) \o Maybe({"."})
            \o EraSuffix(2) \o Eol
    IN With(ReMatch(year_g_re, d, TRUE), LAMBDA m :
    LET year == ToInt(Group(m, d, 1))
    IN IF ~m.ok THEN NONE
       ELSE Ret("year_g", Signed(SuffixIsBC(m, d, 3), Whole(year))))

\* the alternations shared by the patterns of lines 409, 442, 460
QuarterWord == Alt(<<Lit(Word.beginning), Lit(Word.last), Lit(Word.first), Lit(Word.second),
                     Lit(Word.third), Lit(Word.fourth)>>)
OrdinalSuffix == Alt(<<Lit(Word.st), Lit(Word.nd), Lit(Word.rd), Lit(Word.th)>>)

ordinal_range(d) ==
    LET ordinal_range_re == Grp(1, QuarterWord) \o Plus(WS) \o Lit(Word.quarter) \o Plus(WS) \o Lit(Word.of)
            \o Plus(WS) \o Lit(Word.the) \o Plus(WS) \o Grp(2, Plus(IVX)) \o Star(WS)
            \o Opt(Grp(3, OrdinalSuffix)) \o Star(WS) \o One(Dash2) \o Star(WS)
            \o Opt(Grp(4, QuarterWord)) \o Star(WS) \o Lit(Word.of) \o Plus(WS) \o Lit(Word.the)
            \o Plus(WS) \o Grp(5, Plus(IVX)) \o Star(WS) \o Opt(Grp(6, OrdinalSuffix))
            \o Star(WS) \o Lit(Word.century)
    IN With(ReSearch(ordinal_range_re, d, TRUE), LAMBDA m :
    LET quarter1 == Lower(Group(m, d, 1))
        roman1 == Group(m, d, 2)
        quarter2 == IF HasGroup(m, 4) THEN Lower(Group(m, d, 4)) ELSE Word.beginning
        roman2 == Group(m, d, 5)
        adj1 == IF Contains(quarter1, Word.last) \/ Contains(quarter1, Word.fourth) THEN 38
                ELSE IF Contains(quarter1, Word.first) \/ Contains(quarter1, Word.beginning) THEN -38
                ELSE 0
        adj2 == IF Contains(quarter2, Word.beginning) \/ Contains(quarter2, Word.first) THEN -38 ELSE 0
    IN IF m.ok /\ roman1 \in DOMAIN century_patterns /\ roman2 \in DOMAIN century_patterns
       THEN Ret("ordinal_range",
                HalfOf(century_patterns[roman1] + adj1 + century_patterns[roman2] + adj2))
       ELSE NONE)

beginning_ordinal(d) ==
    LET beginning_ordinal_re == Grp(1, Alt(<<Lit(Word.beginning), Lit(Word.start), Lit(Word.early)>>)) \o Plus(WS)
            \o Lit(Word.of) \o Plus(WS) \o Lit(Word.the) \o Plus(WS) \o Grp(2, Plus(IVX))
            \o Grp(3, Alt(<<Lit(Word.st), Lit(Word.nd), Lit(Word.rd), Lit(Word.th), Lit(<<"d">>)>>))
            \o Star(WS) \o Lit(Word.century)
    IN With(ReSearch(beginning_ordinal_re, d, TRUE), LAMBDA m :
    LET roman == Group(m, d, 2)
    IN IF m.ok /\ roman \in DOMAIN century_patterns
       THEN Ret("beginning_ordinal", Whole(century_patterns[roman] - 38))
       ELSE NONE)

half_ordinal(d) ==
    LET half_ordinal_re == Grp(1, Alt(<<Lit(Word.second), Lit(Word.first)>>)) \o Plus(WS) \o Lit(Word.half)
            \o Plus(WS) \o Grp(2, Rep(Digits, 1, 2)) \o Grp(3, OrdinalSuffix) \o Star(WS)
            \o One(Dash2) \o Star(WS)
            \o Grp(4, Alt(<<Lit(Word.first), Lit(Word.second), Lit(Word.last)>>)) \o Plus(WS)
            \o Lit(Word.half) \o Plus(WS) \o Grp(5, Rep(Digits, 1, 2)) \o Grp(6, OrdinalSuffix)
            \o Star(WS) \o Lit(Word.century)
    IN With(ReSearch(half_ordinal_re, d, TRUE), LAMBDA m :
    LET half1 == Lower(Group(m, d, 1))
        half2 == Lower(Group(m, d, 4))
        year1 == (ToInt(Group(m, d, 2)) - 1) * 100 + 50
        year2 == (ToInt(Group(m, d, 5)) - 1) * 100 + 50
        adj1 == IF Contains(half1, Word.second) THEN 12
                ELSE IF Contains(half1, Word.first) THEN -12 ELSE 0
        adj2 == IF Contains(half2, Word.first) THEN -12
                ELSE IF Contains(half2, Word.second) THEN 12 ELSE 0
    IN IF ~m.ok THEN NONE
       ELSE Ret("half_ordinal", HalfOf(year1 + adj1 + year2 + adj2)))

\* the tail shared by the patterns of lines 490 and 498
YearsAgo == Star(WS) \o Lit(Word.thousand) \o Star(WS) \o Lit(Word.year) \o Maybe({"s"}) \o Star(WS)
            \o Lit(Word.ago)

thousand_range_match(d) ==
    LET thousand_range_re == Grp(1, Plus(Digits)) \o Lit(<<"-">>) \o Grp(2, Plus(Digits)) \o YearsAgo
    IN With(ReSearch(thousand_range_re, d, TRUE), LAMBDA m :
       IF ~m.ok THEN NONE
       ELSE IF TooLargeForFloat(Group(m, d, 1)) \/ TooLargeForFloat(Group(m, d, 2)) THEN RAISED
       ELSE Ret("thousand_range_match",
                -(HalfOf(ToInt(Group(m, d, 1)) + ToInt(Group(m, d, 2))) * 1000)))

thousand_match(d) ==
    LET thousand_re == Grp(1, Plus(Digits)) \o YearsAgo
    IN With(ReSearch(thousand_re, d, TRUE), LAMBDA m :
       IF ~m.ok THEN NONE
       ELSE Ret("thousand_match", -Whole(ToInt(Group(m, d, 1)) * 1000)))

millennium_single_match(d) ==
    LET millennium_single_re == WB \o Grp(1, Plus(IVX)) \o Star(WS) \o Lit(Word.millennium) \o Star(WS)
            \o Opt(Grp(2, Alt(<<Lit(Word.BC), Lit(Word.AD)>>))) \o WB
    IN With(ReSearch(millennium_single_re, d, TRUE), LAMBDA m :
    LET roman_num == Group(m, d, 1)
        is_bc == HasGroup(m, 2) /\ Contains(Upper(Group(m, d, 2)), Word.BC)
        mill_num == millennium_map[roman_num]
    IN IF m.ok /\ roman_num \in DOMAIN millennium_map
       THEN IF is_bc THEN Ret("millennium_single_match", -Whole(mill_num * 1000 - 500))
            ELSE Ret("millennium_single_match", Whole((mill_num - 1) * 1000 + 500))
       ELSE NONE)

millennium_match(d) ==
    LET millennium_re == Grp(1, Plus(Digits)) \o Lit(<<"-">>) \o Grp(2, Plus(Digits)) \o Star(WS)
            \o Lit(Word.millennium) \o Star(WS) \o Lit(Word.BC)
    IN With(ReSearch(millennium_re, d, TRUE), LAMBDA m :
       IF ~m.ok THEN NONE
       ELSE IF TooLargeForFloat(Group(m, d, 1)) \/ TooLargeForFloat(Group(m, d, 2)) THEN RAISED
       ELSE Ret("millennium_match",
                -HalfOf(ToInt(Group(m, d, 1)) * 1000 + ToInt(Group(m, d, 2)) * 1000)))

decade_range_match(d) ==
    LET decade_range_re == Grp(1, Plus(Digits)) \o One(Dash2) \o Grp(2, Plus(Digits)) \o Lit(<<"s">>)
            \o Star(WS) \o Opt(Grp(3, Lit(Word.BC)))
    IN With(ReSearch(decade_range_re, d, TRUE), LAMBDA m :
       IF ~m.ok THEN NONE
       ELSE IF TooLargeForFloat(Group(m, d, 1)) \/ TooLargeForFloat(Group(m, d, 2)) THEN RAISED
       ELSE Ret("decade_range_match",
                Signed(HasGroup(m, 3), HalfOf(ToInt(Group(m, d, 1)) + ToInt(Group(m, d, 2))))))

\* decade_match with the first year of the decade for the decade
decade_match_first_year(d) ==
    LET decade_re == Grp(1, Plus(Digits)) \o Lit(<<"s">>) \o Star(WS) \o Opt(Grp(2, Lit(Word.BC)))
    IN With(ReSearch(decade_re, d, TRUE), LAMBDA m :
       IF ~m.ok THEN NONE
       ELSE Ret("decade_match", Signed(HasGroup(m, 2), Whole(ToInt(Group(m, d, 1))))))

decade_match(d) ==
    LET decade_re == Grp(1, Plus(Digits)) \o Lit(<<"s">>) \o Star(WS) \o Opt(Grp(2, Lit(Word.BC)))
    IN With(ReSearch(decade_re, d, TRUE), LAMBDA m :
       IF ~m.ok THEN NONE
       ELSE Ret("decade_match", Signed(HasGroup(m, 2), Whole(ToInt(Group(m, d, 1)) + 5))))

\* PartOffset with the halves taken at the midpoints of the half centuries
PartOffset_halves(part) ==
    IF Contains(part, Word.end) \/ Contains(part, Word.late) \/ Contains(part, Word.ending) THEN 38
    ELSE IF Contains(part, Word.second_half) THEN 25
    ELSE IF Contains(part, Word.first_half) THEN -25
    ELSE IF Contains(part, Word.early) \/ Contains(part, Word.beginning) \/ Contains(part, Word.start)
         THEN -38
    ELSE 0

\* the offset of part_of_century_match for a qualifier
PartOffset(part) ==
    IF Contains(part, Word.end) \/ Contains(part, Word.late) \/ Contains(part, Word.ending) THEN 38
    ELSE IF Contains(part, Word.second_half) THEN 12
    ELSE IF Contains(part, Word.first_half) \/ Contains(part, Word.early)
            \/ Contains(part, Word.beginning) \/ Contains(part, Word.start) THEN -38
    ELSE 0

part_of_century_match(d) ==
    LET part_of_century_re == Grp(1, Alt(<<Lit(Word.end), Lit(Word.ending), Lit(Word.late), Lit(Word.second_half),
            Lit(Word.first_half), Lit(Word.beginning), Lit(Word.start),
            Lit(Word.early), Lit(Word.middle), Lit(Word.mid)>>))
            \o RepLazy(AnyChar, 0, -1) \o Grp(2, Plus(IVX)) \o Star(WS)
            \o Lit(Word.century) \o Star(WS) \o Opt(Grp(3, Alt(<<Lit(Word.BC), Lit(Word.AD)>>)))
    IN With(ReSearch(part_of_century_re, d, TRUE), LAMBDA m :
    LET part == Lower(Group(m, d, 1))
        roman == Group(m, d, 2)
        is_bc == HasGroup(m, 3) /\ Contains(Upper(Group(m, d, 3)), Word.BC)
    IN IF m.ok /\ roman \in DOMAIN century_patterns
       THEN Ret("part_of_century_match",
                Signed(is_bc, Whole(century_patterns[roman] + PartOffset(part))))
       ELSE NONE)

\* the offset of quarter_range_match for a quarter
QuarterOffset(quarter) ==
    IF Contains(quarter, Word.first) THEN -38
    ELSE IF Contains(quarter, Word.second) THEN -12
    ELSE IF Contains(quarter, Word.third) THEN 12
    ELSE IF Contains(quarter, Word.fourth) \/ Contains(quarter, Word.last) THEN 38
    ELSE 0

quarter_range_match(d) ==
    LET quarter_range_re == Grp(1, Plus(IVX)) \o Star(WS) \o Lit(<<"-">>) \o Star(WS)
            \o Grp(2, Alt(<<Lit(Word.first), Lit(Word.second), Lit(Word.third), Lit(Word.fourth),
            Lit(Word.last)>>))
            \o Star(WS) \o Lit(<<"q">>) \o Maybe({"."}) \o Star(WS) \o Grp(3, Plus(IVX))
            \o Star(WS) \o Lit(Word.century) \o Star(WS)
            \o Opt(Grp(4, Alt(<<Lit(Word.BC), Lit(Word.AD)>>)))
    IN With(ReSearch(quarter_range_re, d, TRUE), LAMBDA m :
    LET roman1 == Group(m, d, 1)
        quarter == Lower(Group(m, d, 2))
        roman2 == Group(m, d, 3)
        is_bc == HasGroup(m, 4) /\ Contains(Upper(Group(m, d, 4)), Word.BC)
    IN IF m.ok /\ roman1 \in DOMAIN century_patterns /\ roman2 \in DOMAIN century_patterns
       THEN Ret("quarter_range_match",
                Signed(is_bc, HalfOf(century_patterns[roman1] + century_patterns[roman2]
                                     + QuarterOffset(quarter))))
       ELSE NONE)

\* rf'\b{numeral}\b\s*century\s*BC' and rf'\b{numeral}\b\s*century'
century_bc_re(numeral) == WB \o Lit(numeral) \o WB \o Star(WS) \o Lit(Word.century) \o Star(WS)
                          \o Lit(Word.BC)
century_ad_re(numeral) == WB \o Lit(numeral) \o WB \o Star(WS) \o Lit(Word.century)

\* the if/elif chain of lines 659-674: the numerals it returns for
BCReturned == {Numeral.I, Numeral.II, Numeral.III, Numeral.IV, Numeral.V, Numeral.VI, Numeral.VII, Numeral.VIII}

\* the loop of lines 655-674 over the numerals lo..hi of the dict, in their
\* order (the first half of the range before the second)
RECURSIVE century_bc_loop(_, _, _)
century_bc_loop(d, lo, hi) ==
    IF lo = hi
    THEN LET numeral == century_order[lo]
         IN IF ReSearch(century_bc_re(numeral), d, TRUE).ok /\ numeral \in BCReturned
            THEN Ret("century_bc", -Whole(century_patterns[numeral]))
            ELSE NONE
    ELSE FirstReturn(century_bc_loop(d, lo, (lo + hi) \div 2),
                     century_bc_loop(d, (lo + hi) \div 2 + 1, hi))

\* the loop of lines 677-680
RECURSIVE century_ad_loop(_, _, _)
century_ad_loop(d, lo, hi) ==
    IF lo = hi
    THEN LET numeral == century_order[lo]
         IN IF ReSearch(century_ad_re(numeral), d, TRUE).ok
            THEN Ret("century_ad", Whole(century_patterns[numeral]))
            ELSE NONE
    ELSE FirstReturn(century_ad_loop(d, lo, (lo + hi) \div 2),
                     century_ad_loop(d, (lo + hi) \div 2 + 1, hi))

range_match(d) ==
    LET range_re == Grp(1, Plus(IVX)) \o Lit(<<"-">>) \o Grp(2, Plus(IVX)) \o Star(WS) \o Lit(Word.century)
    IN With(ReSearch(range_re, d, TRUE), LAMBDA m :
    LET num1 == Group(m, d, 1)
        num2 == Group(m, d, 2)
    IN IF m.ok /\ num1 \in DOMAIN century_patterns /\ num2 \in DOMAIN century_patterns
       THEN Ret("range_match",
                Signed(Contains(d, Word.BC), HalfOf(century_patterns[num1] + century_patterns[num2])))
       ELSE NONE)

complex_match(d) ==
    LET complex_re == Grp(1, Plus(IVX)) \o Star(WS) \o Lit(Word.century) \o Star(WS) \o Lit(Word.BC)
            \o Star(WS) \o Lit(<<"-">>) \o Star(WS) \o Grp(2, Plus(IVX)) \o Star(WS)
            \o Lit(Word.century) \o NotAhead(Star(WS) \o Lit(Word.BC))
    IN With(ReSearch(complex_re, d, TRUE), LAMBDA m :
    LET bc_num == Group(m, d, 1)
        ad_num == Group(m, d, 2)
    IN IF m.ok /\ bc_num \in DOMAIN century_patterns /\ ad_num \in DOMAIN century_patterns
       THEN Ret("complex_match", HalfOf(-century_patterns[bc_num] + century_patterns[ad_num]))
       ELSE NONE)

year_range_match(d) ==
    LET year_range_re == Bol \o Grp(1, Rep(Digits, 4, 4)) \o Lit(<<"-">>) \o Grp(2, Rep(Digits, 4, 4))
            \o Eol
    IN With(ReMatch(year_range_re, d, FALSE), LAMBDA m :
       IF ~m.ok THEN NONE
       ELSE Ret("year_range_match", HalfOf(ToInt(Group(m, d, 1)) + ToInt(Group(m, d, 2)))))

year_match(d) ==
    LET year_re == Bol \o Grp(1, Rep(Digits, 4, 4)) \o Eol
    IN With(ReMatch(year_re, d, FALSE), LAMBDA m :
       IF ~m.ok THEN NONE ELSE Ret("year_match", Whole(ToInt(Group(m, d, 1)))))

\* the k-th recognizer of the cascade, in source order
NumRecognizers == 31

Recognizer(k, d) ==
    CASE k = 1  -> lone_roman_match(d)
      [] k = 2  -> single_roman_match(d)
      [] k = 3  -> year_only_range(d)
      [] k = 4  -> year_only(d)
      [] k = 5  -> end_range_match(d)
      [] k = 6  -> quarter_century_match(d)
      [] k = 7  -> wrong_format(d)
      [] k = 8  -> century_space_range(d)
      [] k = 9  -> early_th_match(d)
      [] k = 10 -> early_arabic_cent(d)
      [] k = 11 -> slash_range(d)
      [] k = 12 -> complex_slash(d)
      [] k = 13 -> or_alternative(d)
      [] k = 14 -> year_g(d)
      [] k = 15 -> ordinal_range(d)
      [] k = 16 -> beginning_ordinal(d)
      [] k = 17 -> half_ordinal(d)
      [] k = 18 -> thousand_range_match(d)
      [] k = 19 -> thousand_match(d)
      [] k = 20 -> millennium_single_match(d)
      [] k = 21 -> millennium_match(d)
      [] k = 22 -> decade_range_match(d)
      [] k = 23 -> decade_match(d)
      [] k = 24 -> part_of_century_match(d)
      [] k = 25 -> quarter_range_match(d)
      [] k = 26 -> century_bc_loop(d, 1, Len(century_order))
      [] k = 27 -> century_ad_loop(d, 1, Len(century_order))
      [] k = 28 -> range_match(d)
      [] k = 29 -> complex_match(d)
      [] k = 30 -> year_range_match(d)
      [] k = 31 -> year_match(d)

\* the first recognizer of lo..hi, in the order of the function, that returns
RECURSIVE Cascade(_, _, _)
Cascade(d, lo, hi) ==
    IF lo = hi THEN Recognizer(lo, d)
    ELSE FirstReturn(Cascade(d, lo, (lo + hi) \div 2), Cascade(d, (lo + hi) \div 2 + 1, hi))

\* extract_year_from_date(date_str)
extract_year_from_date(date_str) ==
    IF date_str = ABSENT \/ date_str = <<>> THEN NONE
    ELSE Cascade(normalize_cyrillic_to_latin(Strip(date_str)), 1, NumRecognizers)

(***************************************************************************)
(* Period tables and assign_period_category                                *)
(***************************************************************************)
\* 5_add_category_period.py
HISTORICAL_PERIODS == <<
    [name |-> "Paleolithic Period", start |-> -1400000, end |-> -10000,
     label |-> "Paleolithic Period"],
    [name |-> "Neolithic Period", start |-> -10000, end |-> -4500,
     label |-> "Neolithic Period"],
    [name |-> "Bronze Age", start |-> -4500, end |-> -1200,
     label |-> "Bronze Age"],
    [name |-> "Iron Age", start |-> -1200, end |-> -700,
     label |-> "Iron Age"],
    [name |-> "Scythian-Sarmatian Era", start |-> -700, end |-> 250,
     label |-> "Scythian-Sarmatian Era"],
    [name |-> "Greek and Roman Period", start |-> -250, end |-> 375,
     label |-> "Greek and Roman Period"],
    [name |-> "Migration Period", start |-> 370, end |-> 700,
     label |-> "Migration Period"],
    [name |-> "Early Medieval Period", start |-> 600, end |-> 900,
     label |-> "Early Medieval Period"],
    [name |-> "Kievan Rus' Period", start |-> 839, end |-> 1240,
     label |-> "Kievan Rus Period"],
    [name |-> "Mongol Invasion and Domination", start |-> 1239, end |-> 1400,
     label |-> "Mongol Invasion and Domination"],
    [name |-> "Kingdom of Galicia-Volhynia", start |-> 1197, end |-> 1340,
     label |-> "Kingdom of Galicia-Volhynia"],
    [name |-> "Lithuanian and Polish Period", start |-> 1340, end |-> 1648,
     label |-> "Lithuanian and Polish Period"],
    [name |-> "Cossack Hetmanate Period", start |-> 1648, end |-> 1764,
     label |-> "Cossack Hetmanate Period"],
    [name |-> "Ukraine under the Russian Empire", start |-> 1764, end |-> 1917,
     label |-> "Ukraine under the Russian Empire"],
    [name |-> "Ukraine's First Independence", start |-> 1917, end |-> 1921,
     label |-> "Ukraine's First Independence"],
    [name |-> "Soviet Period", start |-> 1921, end |-> 1991,
     label |-> "Soviet Period"],
    [name |-> "Independence Period", start |-> 1991, end |-> 2030,
     label |-> "Independence Period"] >>

\* add_period_categories.py
HISTORICAL_PERIODS_add == <<
    [name |-> "Paleolithic Period", start |-> -1400000, end |-> -10000,
     label |-> "Paleolithic Period (c. 1.4 million years ago - 10,000 BC)"],
    [name |-> "Neolithic Period", start |-> -5050, end |-> -2950,
     label |-> "Neolithic Period (c. 5050 - 2950 BC)"],
    [name |-> "Bronze Age", start |-> -4500, end |-> -1950,
     label |-> "Bronze Age (c. 4500 - 1950 BC)"],
    [name |-> "Scythian-Sarmatian Era", start |-> -700, end |-> -250,
     label |-> "Scythian-Sarmatian Era (c. 700 BC - 250 BC)"],
    [name |-> "Greek and Roman Period", start |-> -250, end |-> 375,
     label |-> "Greek and Roman Period (250 BC - 375 AD)"],
    [name |-> "Migration Period", start |-> 370, end |-> 700,
     label |-> "Migration Period (370s - 7th century AD)"],
    [name |-> "Early Medieval Period - Bulgar and Khazar Era", start |-> 600, end |-> 900,
     label |-> "Early Medieval Period - Bulgar and Khazar Era (7th - 9th centuries)"],
    [name |-> "Kievan Rus' Period", start |-> 839, end |-> 1240,
     label |-> "Kievan Rus' Period (839 - 1240)"],
    [name |-> "Mongol Invasion and Domination", start |-> 1239, end |-> 1400,
     label |-> "Mongol Invasion and Domination (1239 - 14th century)"],
    [name |-> "Kingdom of Galicia-Volhynia/Ruthenia", start |-> 1197, end |-> 1340,
     label |-> "Kingdom of Galicia-Volhynia/Ruthenia (1197 - 1340)"],
    [name |-> "Lithuanian and Polish Period", start |-> 1340, end |-> 1648,
     label |-> "Lithuanian and Polish Period (1340 - 1648)"],
    [name |-> "Cossack Hetmanate Period", start |-> 1648, end |-> 1764,
     label |-> "Cossack Hetmanate Period (1648 - 1764)"],
    [name |-> "Ukraine under the Russian Empire", start |-> 1764, end |-> 1917,
     label |-> "Ukraine under the Russian Empire (1764 - 1917)"],
    [name |-> "Ukraine's First Independence", start |-> 1917, end |-> 1921,
     label |-> "Ukraine's First Independence (1917 - 1921)"],
    [name |-> "Soviet Period", start |-> 1921, end |-> 1991,
     label |-> "Soviet Period (1921 - 1991)"],
    [name |-> "Independence Period", start |-> 1991, end |-> 2030,
     label |-> "Independence Period (1991 - present)"] >>

\* clean_hermitage_dataset.py
HISTORICAL_PERIODS_hermitage == <<
    [name |-> "Paleolithic Period", start |-> -1400000, end |-> -10000,
     label |-> "Paleolithic Period (c. 1.4 million years ago - 10,000 BC)"],
    [name |-> "Neolithic Period", start |-> -5050, end |-> -2950,
     label |-> "Neolithic Period (c. 5050 - 2950 BC)"],
    [name |-> "Bronze Age", start |-> -4500, end |-> -1950,
     label |-> "Bronze Age (c. 4500 - 1950 BC)"],
    [name |-> "Scythian-Sarmatian Era", start |-> -700, end |-> -250,
     label |-> "Scythian-Sarmatian Era (c. 700 BC - 250 BC)"],
    [name |-> "Greek and Roman Period", start |-> -250, end |-> 375,
     label |-> "Greek and Roman Period (250 BC - 375 AD)"],
    [name |-> "Migration Period", start |-> 370, end |-> 700,
     label |-> "Migration Period (370s - 7th century AD)"],
    [name |-> "Early Medieval Period - Bulgar and Khazar Era", start |-> 600, end |-> 900,
     label |-> "Early Medieval Period - Bulgar and Khazar Era (7th - 9th centuries)"],
    [name |-> "Kievan Rus' Period", start |-> 839, end |-> 1240,
     label |-> "Kievan Rus' Period (839 - 1240)"],
    [name |-> "Mongol Invasion and Domination", start |-> 1239, end |-> 1400,
     label |-> "Mongol Invasion and Domination (1239 - 14th century)"],
    [name |-> "Kingdom of Galicia-Volhynia/Ruthenia", start |-> 1197, end |-> 1340,
     label |-> "Kingdom of Galicia-Volhynia/Ruthenia (1197 - 1340)"],
    [name |-> "Lithuanian and Polish Period", start |-> 1340, end |-> 1648,
     label |-> "Lithuanian and Polish Period (1340 - 1648)"],
    [name |-> "Cossack Hetmanate Period", start |-> 1648, end |-> 1764,
     label |-> "Cossack Hetmanate Period (1648 - 1764)"],
    [name |-> "Ukraine under the Russian Empire", start |-> 1764, end |-> 1917,
     label |-> "Ukraine under the Russian Empire (1764 - 1917)"],
    [name |-> "Ukraine's First Independence", start |-> 1917, end |-> 1921,
     label |-> "Ukraine's First Independence (1917 - 1921)"],
    [name |-> "Soviet Period", start |-> 1921, end |-> 1991,
     label |-> "Soviet Period (1921 - 1991)"],
    [name |-> "Independence Period", start |-> 1991, end |-> 2030,
     label |-> "Independence Period (1991 - present)"] >>

\* MatchingPeriods leaving the loop at the first entry that contains the year
MatchingPeriods_first_hit(table, year) ==
    LET hits == {k \in 1..Len(table) :
                    Whole(table[k].start) <= year /\ year <= Whole(table[k].end)}
    IN IF hits = {} THEN <<>> ELSE <<table[CHOOSE k \in hits : \A j \in hits : k <= j]>>

\* [p for p in table if p['start'] <= year <= p['end']], year a stored number
MatchingPeriods(table, year) ==
    SelectSeq(table, LAMBDA p : Whole(p.start) <= year /\ year <= Whole(p.end))

\* [p['name'] for p in matching_periods]
PeriodNames(matching_periods) == {matching_periods[k].name : k \in 1..Len(matching_periods)}

\* next(p['label'] for p in matching_periods if p['name'] == name)
LabelOf(matching_periods, name) ==
    LET k == CHOOSE k \in 1..Len(matching_periods) :
                 /\ matching_periods[k].name = name
                 /\ \A j \in 1..(k - 1) : matching_periods[j].name # name
    IN matching_periods[k].label

\* A returned label and the return statement that produced it
Lab(label, by) == [label |-> label, by |-> by]

\* if not matching_periods: ... (the same in the three scripts)
NoMatchLabel(year) ==
    IF year < Whole(-10000) THEN Lab("Pre-Neolithic Period", "before")
    ELSE IF year > Whole(2030) THEN Lab("Contemporary Period", "after")
    ELSE Lab("Unknown Period", "gap")

\* ClassifyYear with the Kievan Rus' rule tried before the Mongol rule
ClassifyYear_kievan_first(year) ==
    LET matching_periods == MatchingPeriods(HISTORICAL_PERIODS, year)
        period_names == PeriodNames(matching_periods)
    IN IF matching_periods = <<>> THEN NoMatchLabel(year)
       ELSE IF Len(matching_periods) = 1 THEN Lab(matching_periods[1].label, "single")
       ELSE IF "Kievan Rus' Period" \in period_names
               /\ "Kingdom of Galicia-Volhynia" \in period_names
            THEN Lab(LabelOf(matching_periods, "Kievan Rus' Period"), "kievan_galicia")
       ELSE IF "Mongol Invasion and Domination" \in period_names
               /\ "Kingdom of Galicia-Volhynia" \in period_names
            THEN IF year < Whole(1300)
                 THEN Lab(LabelOf(matching_periods, "Mongol Invasion and Domination"), "mongol_galicia")
                 ELSE Lab(LabelOf(matching_periods, "Kingdom of Galicia-Volhynia"), "mongol_galicia")
       ELSE Lab(matching_periods[1].label, "default")

\* 5_add_category_period.py, lines 797-846: the label of a numeric year
ClassifyYear(year) ==
    LET matching_periods == MatchingPeriods(HISTORICAL_PERIODS, year)
        period_names == PeriodNames(matching_periods)
    IN IF matching_periods = <<>> THEN NoMatchLabel(year)
       ELSE IF Len(matching_periods) = 1 THEN Lab(matching_periods[1].label, "single")
       ELSE IF "Mongol Invasion and Domination" \in period_names
               /\ "Kingdom of Galicia-Volhynia" \in period_names
            THEN IF year < Whole(1300)
                 THEN Lab(LabelOf(matching_periods, "Mongol Invasion and Domination"), "mongol_galicia")
                 ELSE Lab(LabelOf(matching_periods, "Kingdom of Galicia-Volhynia"), "mongol_galicia")
       ELSE IF "Kievan Rus' Period" \in period_names
               /\ "Kingdom of Galicia-Volhynia" \in period_names
            THEN Lab(LabelOf(matching_periods, "Kievan Rus' Period"), "kievan_galicia")
       ELSE IF "Scythian-Sarmatian Era" \in period_names
               /\ "Greek and Roman Period" \in period_names
            THEN IF year > 0
                 THEN Lab(LabelOf(matching_periods, "Greek and Roman Period"), "scythian_greek")
                 ELSE Lab(LabelOf(matching_periods, "Scythian-Sarmatian Era"), "scythian_greek")
       ELSE IF "Migration Period" \in period_names /\ "Early Medieval Period" \in period_names
            THEN IF year < Whole(650)
                 THEN Lab(LabelOf(matching_periods, "Migration Period"), "migration_medieval")
                 ELSE Lab(LabelOf(matching_periods, "Early Medieval Period"), "migration_medieval")
       ELSE Lab(matching_periods[1].label, "default")

\* A cell of year_for_timeline: absent (NaN), a number or a text
NoCell == [k |-> "absent", v |-> 0, s |-> <<>>]
NumCell(v4) == [k |-> "num", v |-> v4, s |-> <<>>]
StrCell(s) == [k |-> "str", v |-> 0, s |-> s]

\* re.match(r'^(\d{4})', ...), re.match(r'^\d{4}-\d{4}$', ...), re.match(r'^\d{4}$', ...)

\* 5_add_category_period.py, lines 765-792: the year of a row, NONE when there is none
RowYear(row) ==
    LET timeline_year_re == Bol \o Grp(1, Rep(Digits, 4, 4))
        norm_range_re == Bol \o Grp(1, Rep(Digits, 4, 4)) \o Lit(<<"-">>) \o Grp(2, Rep(Digits, 4, 4)) \o Eol
        norm_year_re == Bol \o Grp(1, Rep(Digits, 4, 4)) \o Eol
    IN FirstReturn(
         With(row.year_for_timeline, LAMBDA yft :
           IF yft.k = "num" THEN Ret("year_for_timeline", yft.v)
           ELSE IF yft.k = "str"
                THEN With(ReMatch(timeline_year_re, yft.s, FALSE), LAMBDA m :
                       IF m.ok THEN Ret("year_for_timeline", Whole(ToInt(Group(m, yft.s, 1))))
                       ELSE NONE)
           ELSE NONE),
         FirstReturn(
           IF row.date # ABSENT THEN extract_year_from_date(row.date) ELSE NONE,
           With(row.date_normalized, LAMBDA date_norm :
             IF date_norm # ABSENT /\ date_norm # <<>>
             THEN With(ReMatch(norm_range_re, date_norm, FALSE), LAMBDA mr :
                    IF mr.ok
                    THEN Ret("date_normalized",
                             HalfOf(ToInt(Group(mr, date_norm, 1)) + ToInt(Group(mr, date_norm, 2))))
                    ELSE IF ReMatch(norm_year_re, date_norm, FALSE).ok
                         THEN Ret("date_normalized", Whole(ToInt(date_norm)))
                    ELSE NONE)
             ELSE NONE)))

\* create_date_normalized without the return of line 751: a row without a year
\* is formatted as the year 0
create_date_normalized_unguarded(row) ==
    With(RowYear(row), LAMBDA year :
        IF year.val < 0 THEN Decimal((-year.val) \div 4) \o Sp \o Word.BC
        ELSE Decimal(year.val \div 4) \o Sp \o Word.AD)

\* 5_add_category_period.py, lines 720-758: create_date_normalized(row); the
\* year is resolved as in assign_period_category (lines 725-748 = 765-792),
\* int() cuts the fraction off
create_date_normalized(row) ==
    With(RowYear(row), LAMBDA year :
        IF year = RAISED THEN <<"OverflowError">>
        ELSE IF year.rule = "none" THEN <<>>
        ELSE IF year.val < 0 THEN Decimal((-year.val) \div 4) \o Sp \o Word.BC
        ELSE Decimal(year.val \div 4) \o Sp \o Word.AD)

\* 5_add_category_period.py, lines 794-846: the label of the year of the row
LabelOfYear(year) ==
    IF year = RAISED THEN Lab("", "OverflowError")
    ELSE IF year.rule = "none" THEN Lab("Unknown Period", "no_year")
    ELSE ClassifyYear(year.val)

\* 5_add_category_period.py: assign_period_category(row)
assign_period_category(row) == LabelOfYear(RowYear(row))

\* add_period_categories.py, lines 157-199
ClassifyYear_add(year) ==
    LET matching_periods == MatchingPeriods(HISTORICAL_PERIODS_add, year)
        period_names == PeriodNames(matching_periods)
    IN IF matching_periods = <<>> THEN NoMatchLabel(year)
       ELSE IF Len(matching_periods) = 1 THEN Lab(matching_periods[1].label, "single")
       ELSE IF "Mongol Invasion and Domination" \in period_names
               /\ "Kingdom of Galicia-Volhynia/Ruthenia" \in period_names
            THEN IF year < Whole(1300)
                 THEN Lab(LabelOf(matching_periods, "Mongol Invasion and Domination"), "mongol_galicia")
                 ELSE Lab(LabelOf(matching_periods, "Kingdom of Galicia-Volhynia/Ruthenia"),
                          "mongol_galicia")
       ELSE IF "Kievan Rus' Period" \in period_names
               /\ "Kingdom of Galicia-Volhynia/Ruthenia" \in period_names
            THEN Lab(LabelOf(matching_periods, "Kievan Rus' Period"), "kievan_galicia")
       ELSE IF "Bronze Age" \in period_names /\ "Neolithic Period" \in period_names
            THEN Lab(LabelOf(matching_periods, "Bronze Age"), "bronze_neolithic")
       ELSE Lab(matching_periods[1].label, "default")

\* regex of lines 131-146 of add_period_categories.py
word_re(w) == WB \o Lit(w) \o WB

\* int('-1234') / float('-1234')
ToSignedInt(s) == IF s # <<>> /\ Head(s) = "-" THEN -ToInt(Tail(s)) ELSE ToInt(s)

\* add_period_categories.py, lines 116-155: the year of a row
RowYear_add(row) ==
    LET year == row.year_for_timeline
        date_normalized == row.date_normalized
        signed_year_re == Bol \o Maybe({"-"}) \o Rep(Digits, 4, 4) \o Eol
        signed_range_re == Bol \o Grp(1, Maybe({"-"}) \o Rep(Digits, 4, 4)) \o Lit(<<"-">>)
            \o Grp(2, Maybe({"-"}) \o Rep(Digits, 4, 4))
            \o Opt(Grp(3, Lit(<<" ", "B", "C">>))) \o Eol
    IN IF year.k = "num" THEN Ret("year_for_timeline", year.v)
       ELSE IF date_normalized # ABSENT /\ date_normalized # <<>>
       THEN With(Replace(Replace(Strip(date_normalized), <<"U+0425">>, <<"X">>),
                         <<"U+0406">>, <<"I">>), LAMBDA date_str :
            IF ReSearch(word_re(Numeral.XX), date_str, TRUE).ok THEN Ret("XX", Whole(1950))
            ELSE IF ReSearch(word_re(Numeral.XIX), date_str, TRUE).ok THEN Ret("XIX", Whole(1850))
            ELSE IF ReSearch(word_re(Numeral.XVIII), date_str, TRUE).ok THEN Ret("XVIII", Whole(1750))
            ELSE IF ReSearch(word_re(Numeral.XVII), date_str, TRUE).ok THEN Ret("XVII", Whole(1650))
            ELSE IF ReMatch(signed_year_re, date_str, FALSE).ok
                 THEN Ret("year", Whole(ToSignedInt(date_str)))
            ELSE With(ReMatch(signed_range_re, date_str, FALSE), LAMBDA m :
                 IF m.ok
                 THEN Ret("range", HalfOf(ToSignedInt(Group(m, date_str, 1))
                                          + ToSignedInt(Group(m, date_str, 2))))
                 ELSE NONE))
       ELSE NONE

\* add_period_categories.py, lines 153-199: the label of the year of the row
LabelOfYear_add(year) ==
    IF year.rule = "none" THEN Lab("Unknown Period", "no_year")
    ELSE ClassifyYear_add(year.val)

\* add_period_categories.py: assign_period_category(row)
assign_period_category_add(row) == LabelOfYear_add(RowYear_add(row))

\* clean_hermitage_dataset.py: assign_period_category(year), year NONE for NaN
assign_period_category_hermitage(year) ==
    IF year.rule = "none" THEN Lab("Unknown Period", "no_year")
    ELSE LET y == year.val
             matching_periods == MatchingPeriods(HISTORICAL_PERIODS_hermitage, y)
             period_names == PeriodNames(matching_periods)
         IN IF matching_periods = <<>> THEN NoMatchLabel(y)
            ELSE IF Len(matching_periods) = 1 THEN Lab(matching_periods[1].label, "single")
            ELSE IF "Mongol Invasion and Domination" \in period_names
                    /\ "Kingdom of Galicia-Volhynia/Ruthenia" \in period_names
                 THEN IF y < Whole(1300)
                      THEN Lab(LabelOf(matching_periods, "Mongol Invasion and Domination"),
                               "mongol_galicia")
                      ELSE Lab(LabelOf(matching_periods, "Kingdom of Galicia-Volhynia/Ruthenia"),
                               "mongol_galicia")
            ELSE IF "Kievan Rus' Period" \in period_names
                    /\ "Kingdom of Galicia-Volhynia/Ruthenia" \in period_names
                 THEN Lab(LabelOf(matching_periods, "Kievan Rus' Period"), "kievan_galicia")
            ELSE IF "Bronze Age" \in period_names /\ "Neolithic Period" \in period_names
                 THEN Lab(LabelOf(matching_periods, "Bronze Age"), "bronze_neolithic")
            ELSE Lab(matching_periods[1].label, "default")

(***************************************************************************)
(* clean_hermitage_dataset.py: extract_year_from_dating                    *)
(***************************************************************************)
ROMAN_TO_INT == [r \in DOMAIN century_patterns |->
                   CHOOSE n \in 1..20 : century_order[21 - n] = r]

\* roman_to_arabic(roman): 0 for None
roman_to_arabic(roman) ==
    LET key == Upper(Strip(roman))
    IN IF key \in DOMAIN ROMAN_TO_INT THEN ROMAN_TO_INT[key] ELSE 0

\* a // 2 as a stored number
FloorHalfOf(a) == Whole(a \div 2)

h_year_match(text) ==
    LET h_year_re == WB \o Grp(1, Rep(Digits, 4, 4)) \o WB
    IN With(ReSearch(h_year_re, text, FALSE), LAMBDA m :
       IF m.ok THEN Ret("year_match", Whole(ToInt(Group(m, text, 1)))) ELSE NONE)

h_range_match(text) ==
    LET h_range_re == Grp(1, Rep(Digits, 4, 4)) \o Lit(<<"-">>) \o Grp(2, Rep(Digits, 4, 4))
    IN With(ReSearch(h_range_re, text, FALSE), LAMBDA m :
       IF m.ok THEN Ret("range_match",
                        FloorHalfOf(ToInt(Group(m, text, 1)) + ToInt(Group(m, text, 2))))
       ELSE NONE)

h_single_century(text) ==
    LET h_single_century_re == WB \o Grp(1, Plus(IVX)) \o Plus(WS) \o Lit(Word.century)
    IN With(ReSearch(h_single_century_re, text, TRUE), LAMBDA m :
    LET century_num == roman_to_arabic(Group(m, text, 1))
        is_bc == Contains(Upper(text), Word.BC)
    IN IF m.ok /\ century_num # 0
       THEN IF is_bc THEN Ret("single_century", -Whole(century_num * 100 - 50))
            ELSE Ret("single_century", Whole((century_num - 1) * 100 + 50))
       ELSE NONE)

h_century_range(text) ==
    LET h_century_range_re == WB \o Grp(1, Plus(IVX)) \o Lit(<<"-">>) \o Grp(2, Plus(IVX)) \o Plus(WS)
            \o Lit(Word.centurie) \o Lit(<<"s">>)
    IN With(ReSearch(h_century_range_re, text, TRUE), LAMBDA m :
    LET cent1 == roman_to_arabic(Group(m, text, 1))
        cent2 == roman_to_arabic(Group(m, text, 2))
        is_bc == Contains(Upper(text), Word.BC)
    IN IF m.ok /\ cent1 # 0 /\ cent2 # 0
       THEN IF is_bc
            THEN Ret("century_range", FloorHalfOf(-(cent1 * 100 - 50) - (cent2 * 100 - 50)))
            ELSE Ret("century_range",
                     FloorHalfOf((cent1 - 1) * 100 + 50 + (cent2 - 1) * 100 + 50))
       ELSE NONE)

h_millennium_match(text) ==
    LET h_millennium_re == Grp(1, Plus(IVX)) \o Lit(<<"-">>) \o Grp(2, Plus(IVX)) \o Plus(WS)
            \o Lit(Word.millennium)
    IN With(ReSearch(h_millennium_re, text, TRUE), LAMBDA m :
    LET mill1 == roman_to_arabic(Group(m, text, 1))
        mill2 == roman_to_arabic(Group(m, text, 2))
        is_bc == Contains(Upper(text), Word.BC)
    IN IF m.ok /\ mill1 # 0 /\ mill2 # 0
       THEN IF is_bc
            THEN Ret("millennium_match", FloorHalfOf(-(mill1 * 1000 - 500) - (mill2 * 1000 - 500)))
            ELSE Ret("millennium_match",
                     FloorHalfOf((mill1 - 1) * 1000 + 500 + (mill2 - 1) * 1000 + 500))
       ELSE NONE)

\* extract_year_from_dating(dating_normalized); NONE is np.nan
extract_year_from_dating(dating_normalized) ==
    IF dating_normalized = ABSENT \/ dating_normalized = <<>> THEN NONE
    ELSE With(Strip(dating_normalized), LAMBDA text :
           FirstReturn(h_year_match(text),
           FirstReturn(h_range_match(text),
           FirstReturn(h_single_century(text),
           FirstReturn(h_century_range(text),
                       h_millennium_match(text))))))

(***************************************************************************)
(* clean_hermitage_dataset.py: normalize_dating                            *)
(***************************************************************************)
\* str.rstrip('.')
RECURSIVE RStripDots(_)
RStripDots(s) ==
    IF s # <<>> /\ s[Len(s)] = "." THEN RStripDots(SubSeq(s, 1, Len(s) - 1)) ELSE s

\* normalize_dating(dating_str), lines 140-179
normalize_dating(dating_str) ==
    LET era == Alt(<<Lit(Word.BC), Lit(Word.AD)>>)
        floor == <<"f", "l", "o", "o", "r">>
        centuries == Word.centurie \o <<"s">>
        \* line 151
        d0 == Strip(dating_str)
        \* line 154: ^sec\.floor\.
        d1 == ReSub(Bol \o Lit(<<"s", "e", "c", ".">> \o floor \o <<".">>), <<>>, d0, TRUE)
        \* lines 157-158: BC[eE]?\.? and A\.?D\.?
        d2 == ReSub(Lit(Word.BC) \o Maybe({"e", "E"}) \o Maybe({"."}), TLit(Word.BC), d1, FALSE)
        d3 == ReSub(Lit(<<"A">>) \o Maybe({"."}) \o Lit(<<"D">>) \o Maybe({"."}),
                    TLit(Word.AD), d2, FALSE)
        \* lines 161-162: ([IVXLC]+)(BC|AD) and (century|centuries|millennium)(BC|AD)
        d4 == ReSub(Grp(1, Plus(IVX \cup {"L", "C"})) \o Grp(2, era),
                    TGrp(1) \o TLit(Sp) \o TGrp(2), d3, FALSE)
        d5 == ReSub(Grp(1, Alt(<<Lit(Word.century), Lit(centuries), Lit(Word.millennium)>>))
                    \o Grp(2, era), TGrp(1) \o TLit(Sp) \o TGrp(2), d4, FALSE)
        \* lines 165-166: century(\s*)BC and centuries(\s*)BC
        d6 == ReSub(Lit(Word.century) \o Grp(1, Star(WS)) \o Lit(Word.BC),
                    TLit(Word.century \o Sp \o Word.BC), d5, TRUE)
        d7 == ReSub(Lit(centuries) \o Grp(1, Star(WS)) \o Lit(Word.BC),
                    TLit(centuries \o Sp \o Word.BC), d6, TRUE)
        \* lines 169-170: \s*-\s* and \s+U+2013\s+
        d8 == ReSub(Star(WS) \o Lit(<<"-">>) \o Star(WS), TLit(<<"-">>), d7, FALSE)
        d9 == ReSub(Plus(WS) \o Lit(<<"U+2013">>) \o Plus(WS), TLit(<<"-">>), d8, FALSE)
        \* line 173
        d10 == RStripDots(d9)
        \* lines 176-177: \bcentury\b and \bcenturies\b
        d11 == ReSub(WB \o Lit(Word.century) \o WB, TLit(Word.century), d10, TRUE)
        d12 == ReSub(WB \o Lit(centuries) \o WB, TLit(centuries), d11, TRUE)
    IN IF dating_str = ABSENT \/ dating_str = <<>> THEN <<>> ELSE Strip(d12)

(***************************************************************************)
(* 2_cleaning_stolen_objects.py and stolen_objects_normalization.py:       *)
(* normalize_date (the same code in both), calculate_midpoint_year and     *)
(* get_year_for_timeline                                                   *)
(***************************************************************************)
\* ROMAN_TO_INT of the two scripts: I .. XXV
ROMAN_TO_INT_cleaning ==
    ROMAN_TO_INT @@ (<<"X", "X", "I">> :> 21) @@ (<<"X", "X", "I", "I">> :> 22)
    @@ (<<"X", "X", "I", "I", "I">> :> 23) @@ (<<"X", "X", "I", "V">> :> 24)
    @@ (<<"X", "X", "V">> :> 25)

\* roman_to_arabic(roman) of the two scripts: 0 for None
roman_to_arabic_cleaning(roman) ==
    With(Upper(Strip(roman)), LAMBDA key :
        IF key \in DOMAIN ROMAN_TO_INT_cleaning THEN ROMAN_TO_INT_cleaning[key] ELSE 0)

\* str(n), as f"{year_start}" writes it
StrInt(n) == IF n < 0 THEN <<"-">> \o Decimal(-n) ELSE Decimal(n)

\* int(text): whitespace around it, a sign, digits with single underscores
\* between them; ok is FALSE for ValueError
PyInt(text) ==
    LET int_re == Bol \o Star(WS) \o Grp(1, Maybe({"-", "+"}))
                  \o Grp(2, Plus(Digits \cup {"_"})) \o Star(WS) \o Eol
    IN With(ReMatch(int_re, text, FALSE), LAMBDA m :
       With(Group(m, text, 2), LAMBDA body :
         IF m.ok /\ Head(body) # "_" /\ body[Len(body)] # "_" /\ ~Contains(body, <<"_", "_">>)
         THEN [ok |-> TRUE,
               val |-> (IF Group(m, text, 1) = <<"-">> THEN -1 ELSE 1)
                       * ToInt(Replace(body, <<"_">>, <<>>))]
         ELSE [ok |-> FALSE, val |-> 0]))

\* float(text) for a text in decimal notation: as int(text), with ".", ".0",
\* ".00" ... allowed behind the digits; ok is FALSE for ValueError.  (The
\* inputs of the model hold no exponent, no "inf" or "nan" and no other
\* fraction.)
PyFloat(text) ==
    LET frac_re == Grp(1, Star(AnyChar \cup {"\n"})) \o Grp(2, Lit(<<".">>) \o Star({"0"}))
                   \o Grp(3, Star(WS)) \o Eol
    IN With(ReMatch(Bol \o frac_re, text, FALSE), LAMBDA m :
        IF m.ok /\ Group(m, text, 1) # <<>> /\ Group(m, text, 1)[Len(Group(m, text, 1))] \in Digits
        THEN PyInt(Group(m, text, 1) \o Group(m, text, 3))
        ELSE PyInt(text))

\* str.split(sep) for a separator of one character
RECURSIVE Split(_, _)
Split(s, sep) ==
    With({i \in 1..Len(s) : s[i] = sep}, LAMBDA found :
        IF found = {} THEN <<s>>
        ELSE With(CHOOSE i \in found : \A j \in found : i <= j, LAMBDA first :
                <<SubSeq(s, 1, first - 1)>> \o Split(SubSeq(s, first + 1, Len(s)), sep)))

\* normalize_date(date_str), lines 63-149; the result is the returned text and
\* the return statement that produced it
normalize_date(date_str) ==
    LET \* [-U+201A U+00C4 U+00EC U+201A U+00C4 U+00EE], the class of lines 87 and 99
        dash_class == {"-", "U+201A", "U+00C4", "U+00EC", "U+00EE"}
        \* [-U+201A U+00C4 U+00EC], the class of line 128
        dash_class2 == {"-", "U+201A", "U+00C4", "U+00EC"}
        ordinal == Opt(Alt(<<Lit(Word.th), Lit(Word.st), Lit(Word.nd), Lit(Word.rd)>>))
        centur == Lit(Word.cent \o <<"u", "r">>)
        range_already(d) ==
            IF ReMatch(Bol \o Rep(Digits, 4, 4) \o Lit(<<"-">>) \o Rep(Digits, 4, 4) \o Eol,
                       d, FALSE).ok
            THEN Ret("range_already", d) ELSE NONE
        single_year(d) ==
            IF ReMatch(Bol \o Rep(Digits, 4, 4) \o Eol, d, FALSE).ok
            THEN Ret("single_year", d) ELSE NONE
        range_match_(d) ==
            With(ReSearch(Grp(1, Rep(Digits, 4, 4)) \o Star(WS) \o One(dash_class) \o Star(WS)
                          \o Grp(2, Rep(Digits, 4, 4)), d, FALSE), LAMBDA m :
                IF m.ok THEN Ret("range_match", Group(m, d, 1) \o <<"-">> \o Group(m, d, 2))
                ELSE NONE)
        decade_match_(d) ==
            With(ReSearch(Grp(1, Rep(Digits, 3, 3)) \o Lit(<<"0", "s">>), d, FALSE), LAMBDA m :
                IF m.ok THEN Ret("decade_match", Group(m, d, 1) \o <<"0", "-">>
                                                 \o Group(m, d, 1) \o <<"9">>)
                ELSE NONE)
        roman_range(d) ==
            With(ReSearch(Grp(1, Plus(IVX)) \o Star(WS) \o One(dash_class) \o Star(WS)
                          \o Grp(2, Plus(IVX)) \o Star(WS) \o Lit(Word.century), d, TRUE),
                 LAMBDA m :
                LET century1 == roman_to_arabic_cleaning(Group(m, d, 1))
                    century2 == roman_to_arabic_cleaning(Group(m, d, 2))
                IN IF m.ok /\ century1 # 0 /\ century2 # 0
                   THEN IF Contains(Upper(d), Word.BC)
                        THEN Ret("roman_range", StrInt(-(century1 * 100 - 99)) \o <<"-">>
                                 \o StrInt(-(century2 * 100 - 100)) \o Sp \o Word.BC)
                        ELSE Ret("roman_range", StrInt((century1 - 1) * 100 + 1) \o <<"-">>
                                 \o StrInt(century2 * 100))
                   ELSE NONE)
        roman_match(d) ==
            With(ReSearch(Grp(1, Plus(IVX)) \o Star(WS) \o Lit(Word.century), d, TRUE),
                 LAMBDA m :
                LET century == roman_to_arabic_cleaning(Group(m, d, 1))
                IN IF m.ok /\ century # 0
                   THEN IF Contains(Upper(d), Word.BC)
                        THEN Ret("roman_match", StrInt(-(century * 100 - 99)) \o <<"-">>
                                 \o StrInt(-(century * 100 - 100)) \o Sp \o Word.BC)
                        ELSE Ret("roman_match", StrInt((century - 1) * 100 + 1) \o <<"-">>
                                 \o StrInt(century * 100))
                   ELSE NONE)
        numeric_century_range(d) ==
            With(ReSearch(Grp(1, Plus(Digits)) \o ordinal \o Star(WS) \o One(dash_class2)
                          \o Star(WS) \o Grp(2, Plus(Digits)) \o ordinal \o Star(WS) \o centur,
                          d, TRUE), LAMBDA m :
                IF m.ok
                THEN Ret("numeric_century_range",
                         StrInt((ToInt(Group(m, d, 1)) - 1) * 100 + 1) \o <<"-">>
                         \o StrInt(ToInt(Group(m, d, 2)) * 100))
                ELSE NONE)
        numeric_century(d) ==
            With(ReSearch(Grp(1, Plus(Digits)) \o ordinal \o Star(WS) \o centur, d, TRUE),
                 LAMBDA m :
                IF m.ok
                THEN Ret("numeric_century",
                         StrInt((ToInt(Group(m, d, 1)) - 1) * 100 + 1) \o <<"-">>
                         \o StrInt(ToInt(Group(m, d, 1)) * 100))
                ELSE NONE)
        year_match_(d) ==
            With(ReSearch(WB \o Grp(1, Rep(Digits, 4, 4)) \o WB, d, FALSE), LAMBDA m :
                IF m.ok THEN Ret("year_match", Group(m, d, 1)) ELSE NONE)
    IN IF date_str = ABSENT \/ date_str = <<>> THEN Ret("empty", <<>>)
       ELSE With(Strip(date_str), LAMBDA d :
              FirstReturn(range_already(d),
              FirstReturn(single_year(d),
              FirstReturn(range_match_(d),
              FirstReturn(decade_match_(d),
              FirstReturn(roman_range(d),
              FirstReturn(roman_match(d),
              FirstReturn(numeric_century_range(d),
              FirstReturn(numeric_century(d),
              FirstReturn(year_match_(d),
                          Ret("original", d)))))))))))

\* calculate_midpoint_year(date_normalized), 2_cleaning_stolen_objects.py,
\* lines 151-200; NONE is np.nan
calculate_midpoint_year(date_normalized) ==
    LET midpoint(parts, bc) ==
            With(PyInt(parts[1]), LAMBDA year1 :
            With(PyInt(parts[2]), LAMBDA year2 :
                IF ~year1.ok \/ ~year2.ok THEN NONE
                ELSE IF bc
                     THEN Ret("bc_range", HalfOf(-(IF year1.val < 0 THEN -year1.val ELSE year1.val)
                                                 - (IF year2.val < 0 THEN -year2.val ELSE year2.val)))
                     ELSE Ret("range", HalfOf(year1.val + year2.val))))
    IN IF date_normalized = ABSENT \/ date_normalized = <<>> THEN NONE
       ELSE With(Strip(date_normalized), LAMBDA date_str :
              IF Contains(date_str, Word.BC)
              THEN With(Strip(Replace(date_str, Sp \o Word.BC, <<>>)), LAMBDA bc_str :
                     IF Contains(bc_str, <<"-">>) THEN midpoint(Split(bc_str, "-"), TRUE)
                     ELSE With(PyInt(bc_str), LAMBDA y :
                            IF y.ok THEN Ret("bc_year", Whole(-(IF y.val < 0 THEN -y.val ELSE y.val)))
                            ELSE NONE))
              ELSE IF Contains(date_str, <<"-">>) THEN midpoint(Split(date_str, "-"), FALSE)
              ELSE With(PyFloat(date_str), LAMBDA y :
                     IF y.ok THEN Ret("year", Whole(y.val)) ELSE NONE))

\* get_year_for_timeline(date_normalized), stolen_objects_normalization.py,
\* lines 153-181; NONE is np.nan
get_year_for_timeline(date_normalized) ==
    LET signed_year == Maybe({"-"}) \o Rep(Digits, 4, 4)
    IN IF date_normalized = ABSENT \/ date_normalized = <<>> THEN NONE
       ELSE With(Replace(date_normalized, Sp \o Word.BC, <<>>), LAMBDA date_str :
              IF ReMatch(Bol \o signed_year \o Eol, date_str, FALSE).ok
              THEN Ret("year", Whole(PyInt(date_str).val))
              ELSE With(ReMatch(Bol \o Grp(1, signed_year) \o Lit(<<"-">>) \o Grp(2, signed_year)
                                \o Eol, date_str, FALSE), LAMBDA m :
                     IF m.ok
                     THEN Ret("range", Whole((ToSignedInt(Group(m, date_str, 1))
                                              + ToSignedInt(Group(m, date_str, 2))) \div 2))
                     ELSE NONE))

(***************************************************************************)
(* Inputs                                                                  *)
(***************************************************************************)
\* numbers of sample years, of numerals in century ranges and of numerals in
\* quarter ranges; quarter-year steps around a period boundary; the window of
\* whole years, from DenseBefore years before year 0 to the year DenseHi, and
\* the number of coarse steps of 250 years before it
NumYearSamples == 6
NumRangeNumerals == 6
NumQuarterNumerals == 3
Near == 5
DenseBefore == 800
DenseHi == 2040
CoarseSteps == 48

YearSamples == <<1840, 1850, 1841, 1920, 1930, 1000, 9999, 2030, 1, 1239>>
SampleNumerals == <<Numeral.XIX, Numeral.XX, Numeral.VI, Numeral.V, Numeral.I, Numeral.IX, Numeral.II, Numeral.X, Numeral.IV, Numeral.XV>>

Min(a, b) == IF a < b THEN a ELSE b

SupportedNumerals == DOMAIN century_patterns
SampleYears == {YearSamples[k] : k \in 1..Min(NumYearSamples, Len(YearSamples))}
RangeNumerals == {SampleNumerals[k] : k \in 1..Min(NumRangeNumerals, Len(SampleNumerals))}
QuarterNumerals == {SampleNumerals[k] : k \in 1..Min(NumQuarterNumerals, Len(SampleNumerals))}

\* the four-digit text of n, 0 <= n <= 9999
Digits4(n) == <<DigitChar[n \div 1000], DigitChar[(n \div 100) % 10],
                DigitChar[(n \div 10) % 10], DigitChar[n % 10]>>

Eras == {<<>>, Sp \o Word.BC, Sp \o Word.AD}
PartWords == {Word.first_half, Word.second_half, Word.beginning, Word.middle, Word.end}
QualifierWords == {Word.end, Word.late, Word.early, Word.mid}
QuarterWords == {Word.first, Word.second, Word.third, Word.fourth, Word.last}
OrdinalQuarters == {Word.first, Word.second, Word.third, Word.fourth}

\* "XIX century", "XIX century BC", "XIX century AD"
CenturyText(n1, era) == n1 \o Sp \o Word.century \o era
\* "XIX centuries"
CenturiesText(n1) == n1 \o Sp \o Word.centurie \o <<"s">>
\* "first half of XIX century"
PartText(part, n1, era) == part \o Sp \o Word.of \o Sp \o n1 \o Sp \o Word.century \o era
\* "Y1-Y2"
YearRangeText(y1, y2) == Digits4(y1) \o <<"-">> \o Digits4(y2)
\* "XIX-XX century"
CenturyRangeText(n1, n2, era) == n1 \o <<"-">> \o n2 \o Sp \o Word.century \o era
\* "XIX - first q. XX century", with a qualifier word in front when qual is not empty
QuarterRangeText(qual, n1, qw, n2, era) ==
    (IF qual = <<>> THEN <<>> ELSE qual \o Sp) \o n1 \o <<" ", "-", " ">> \o qw
    \o <<" ", "q", ".", " ">> \o n2 \o Sp \o Word.century \o era
\* years of one to three digits, on both sides of the threshold of line 220
BareYears == {0, 7, 33, 81, 499, 500, 973}
\* "NNNNs"
DecadeText(y, era) == Digits4(y) \o <<"s">> \o era
\* "XIX - first quarter XX centuries"
QuarterCenturyText(n1, qw, n2, era) ==
    n1 \o <<" ", "-", " ">> \o qw \o Sp \o Word.quarter \o Sp \o n2 \o Sp \o Word.centurie
    \o <<"s">> \o era
\* "first quarter of the XIX - second of the XX century"
OrdinalRangeText(q1, n1, q2, n2) ==
    q1 \o Sp \o Word.quarter \o Sp \o Word.of \o Sp \o Word.the \o Sp \o n1 \o <<" ", "-", " ">>
    \o q2 \o Sp \o Word.of \o Sp \o Word.the \o Sp \o n2 \o Sp \o Word.century

\* "40-12 thousand years ago"
ThousandRangeText(a, b) ==
    Decimal(a) \o <<"-">> \o Decimal(b) \o Sp \o Word.thousand \o Sp \o Word.year \o <<"s">>
    \o Sp \o Word.ago
\* texts whose range separator is the hyphen
HyphenTexts ==
    {n1 \o <<"-">> \o n2 : n1 \in RangeNumerals, n2 \in RangeNumerals}
    \cup {CenturyRangeText(n1, n2, <<>>) : n1 \in RangeNumerals, n2 \in RangeNumerals}
    \cup {YearRangeText(y1, y2) : y1 \in SampleYears, y2 \in SampleYears}
    \cup {QuarterRangeText(<<>>, n1, qw, n2, <<>>) :
            n1 \in QuarterNumerals, qw \in OrdinalQuarters, n2 \in QuarterNumerals}
    \cup {ThousandRangeText(40, 12)}
\* U+2013 en dash, U+2014 em dash, U+2212 minus sign
Dashes == {"U+2013", "U+2014", "U+2212"}
\* the text t with the dash in the place of every hyphen
WithDash(t, dash) == Replace(t, <<"-">>, <<dash>>)
\* the text t with the hyphen in the place of every dash
ToHyphen(t) ==
    Replace(Replace(Replace(t, <<"U+2013">>, <<"-">>), <<"U+2014">>, <<"-">>),
            <<"U+2212">>, <<"-">>)
DashTexts == {WithDash(t, dash) : t \in HyphenTexts, dash \in Dashes}

\* number of digits of the long number of the inputs
LongDigits == 310
\* "99...9-1s", a decade range from a number of LongDigits digits
LongDecadeRangeText == [i \in 1..LongDigits |-> "9"] \o <<"-", "1", "s">>

\* the text t with Cyrillic look-alikes in the place of X, I, B, C and y
Cyrillize(t) ==
    Replace(Replace(Replace(Replace(Replace(t, <<"X">>, <<"U+0425">>), <<"I">>, <<"U+0406">>),
                            <<"B">>, <<"U+0412">>), <<"C">>, <<"U+0421">>), <<"y">>, <<"U+0443">>)
\* texts in Latin letters that have such letters
LatinTexts ==
    {CenturyText(n1, era) : n1 \in RangeNumerals, era \in Eras}
    \cup {CenturyRangeText(n1, n2, era) : n1 \in QuarterNumerals, n2 \in QuarterNumerals, era \in Eras}
    \cup {n1 \o Sp \o Word.millennium \o era : n1 \in QuarterNumerals, era \in Eras}
    \cup RangeNumerals
CyrillicTexts == {Cyrillize(t) : t \in LatinTexts}
\* U+00D0 U+00A5 and U+00D0 U+2020, the keys of two characters of the table
MojibakeTexts ==
    {<<"U+00D0", "U+00A5", "X">> \o Sp \o Word.century,
     <<"U+00D0", "U+2020", "I">> \o Sp \o Word.century \o Sp \o Word.BC}

\* "VI century BC - IV century"
ComplexRangeText(n1, n2) ==
    n1 \o Sp \o Word.century \o Sp \o Word.BC \o <<" ", "-", " ">> \o n2 \o Sp \o Word.century

\* the empty text and texts of whitespace only
BlankTexts == {<<>>, Sp, Sp \o Sp, <<"\t">>, <<" ", "\t", " ">>}

DateTexts ==
    {CenturyText(n1, era) : n1 \in SupportedNumerals, era \in Eras}
    \cup {CenturiesText(n1) : n1 \in SupportedNumerals}
    \cup {PartText(part, n1, era) : part \in PartWords, n1 \in SupportedNumerals,
                                   era \in {<<>>, Sp \o Word.BC}}
    \cup {YearRangeText(y1, y2) : y1 \in SampleYears, y2 \in SampleYears}
    \cup {Digits4(y) \o era : y \in SampleYears, era \in Eras}
    \cup {Decimal(y) \o era : y \in BareYears, era \in Eras}
    \cup {CenturyRangeText(n1, n2, era) : n1 \in RangeNumerals, n2 \in RangeNumerals, era \in Eras}
    \cup {QuarterRangeText(qual, n1, qw, n2, era) :
            qual \in QualifierWords \cup {<<>>}, n1 \in QuarterNumerals, qw \in QuarterWords,
            n2 \in QuarterNumerals, era \in Eras}
    \cup {DecadeText(y, era) : y \in SampleYears, era \in {<<>>, Sp \o Word.BC}}
    \cup {QuarterCenturyText(n1, qw, n2, era) :
            n1 \in QuarterNumerals, qw \in OrdinalQuarters, n2 \in QuarterNumerals,
            era \in {<<>>, Sp \o Word.BC}}
    \cup {OrdinalRangeText(q1, n1, q2, n2) :
            q1 \in OrdinalQuarters, n1 \in QuarterNumerals, q2 \in OrdinalQuarters,
            n2 \in QuarterNumerals}
    \cup {n1 \o Sp \o Word.millennium \o era : n1 \in DOMAIN millennium_map, era \in Eras}
    \cup {Decimal(a) \o <<"/">> \o Decimal(b) \o era :
            a \in {596, 666}, b \in {597, 668}, era \in Eras}
    \cup {Decimal(a) \o <<"/">> \o Decimal(a + 1) \o Sp \o Word.or \o Sp \o Decimal(b)
          \o <<"/">> \o Decimal(b + 1) \o era : a \in {596}, b \in {598}, era \in Eras}
    \cup {qual \o Sp \o n1 \o Word.th \o Sp \o Word.century \o era :
            qual \in {Word.early, Word.late}, n1 \in QuarterNumerals, era \in {<<>>, Sp \o Word.BC}}
    \cup HyphenTexts \cup DashTexts
    \cup LatinTexts \cup CyrillicTexts \cup MojibakeTexts
    \cup {ComplexRangeText(n1, n2) : n1 \in RangeNumerals, n2 \in RangeNumerals}
    \cup BlankTexts \cup {<<"n", ".", "d", ".">>, LongDecadeRangeText}

\* the years of the period boundaries and of the thresholds of the rules
BoundaryYears ==
    {HISTORICAL_PERIODS[k].start : k \in 1..Len(HISTORICAL_PERIODS)}
    \cup {HISTORICAL_PERIODS[k].end : k \in 1..Len(HISTORICAL_PERIODS)}
    \cup {HISTORICAL_PERIODS_add[k].start : k \in 1..Len(HISTORICAL_PERIODS_add)}
    \cup {HISTORICAL_PERIODS_add[k].end : k \in 1..Len(HISTORICAL_PERIODS_add)}
    \cup {HISTORICAL_PERIODS_hermitage[k].start : k \in 1..Len(HISTORICAL_PERIODS_hermitage)}
    \cup {HISTORICAL_PERIODS_hermitage[k].end : k \in 1..Len(HISTORICAL_PERIODS_hermitage)}
    \cup {0, 650, 1300}

\* numeric years, as stored numbers
YearValues ==
    {Whole(b) + k : b \in BoundaryYears, k \in (-Near)..Near}
    \cup {Whole(y) : y \in (-DenseBefore)..DenseHi}
    \cup {Whole(-DenseBefore - 250 * k) : k \in 1..CoarseSteps}

Scripts == {"5_add_category_period", "add_period_categories", "clean_hermitage_dataset",
            "2_cleaning_stolen_objects", "stolen_objects_normalization"}
\* the numerals I .. X
TenNumerals == DOMAIN millennium_map
\* what the Hermitage file has between the century word and the era
Gaps == {<<>>, <<".">>, Sp}
\* the narrative prefix of the Hermitage file, or none
Prefixes == {<<>>, <<"s", "e", "c", ".", "f", "l", "o", "o", "r", ".">>}
\* "IV centuryBC", "sec.floor.IV century.BC"
GluedCenturyText(prefix, n1, gap) == prefix \o n1 \o Sp \o Word.century \o gap \o Word.BC
\* "VI - V centuries.BC", "sec.floor.VIII-VI centuriesBC"
GluedRangeText(prefix, n1, sep, n2, gap) ==
    prefix \o n1 \o sep \o n2 \o Sp \o Word.centurie \o <<"s">> \o gap \o Word.BC
\* "N-M centuries", "N-M centuries BC", "N-M millennium BC"
CenturiesRangeText(n1, n2, era) == n1 \o <<"-">> \o n2 \o Sp \o Word.centurie \o <<"s">> \o era
MillenniumRangeText(n1, n2) == n1 \o <<"-">> \o n2 \o Sp \o Word.millennium \o Sp \o Word.BC
\* the column 'dating' of the Hermitage file
DatingTexts ==
    {GluedCenturyText(prefix, n1, gap) : prefix \in Prefixes, n1 \in TenNumerals, gap \in Gaps}
    \cup {GluedRangeText(prefix, n1, sep, n2, gap) :
            prefix \in Prefixes, n1 \in QuarterNumerals, sep \in {<<"-">>, <<" ", "-", " ">>},
            n2 \in QuarterNumerals, gap \in Gaps}
    \cup {CenturiesRangeText(n1, n2, era) :
            n1 \in TenNumerals, n2 \in TenNumerals, era \in {<<>>, Sp \o Word.BC}}
    \cup {MillenniumRangeText(n1, n2) : n1 \in TenNumerals, n2 \in TenNumerals}

\* the two scripts that normalize the date column with normalize_date
CleaningScripts == {"2_cleaning_stolen_objects", "stolen_objects_normalization"}

\* the numerals of ROMAN_TO_INT of the two scripts, I .. XXV
CleaningNumerals == DOMAIN ROMAN_TO_INT_cleaning
\* the numerals of the century ranges of their inputs
CleaningRangeNumerals == RangeNumerals \cup {Numeral.XI, <<"X", "X", "V">>}
\* "N century BC" and "N-M century BC"
BCCenturyTexts ==
    {CenturyText(n1, Sp \o Word.BC) : n1 \in CleaningNumerals}
    \cup {CenturyRangeText(n1, n2, Sp \o Word.BC) :
            n1 \in CleaningRangeNumerals, n2 \in CleaningRangeNumerals}
\* "18th century", "18-19th century", "5 century"
NumericCenturyTexts ==
    {Decimal(c) \o o \o Sp \o Word.century : c \in {1, 5, 18, 21}, o \in {<<>>, Word.th, Word.st}}
    \cup {Decimal(c) \o <<"-">> \o Decimal(c + 1) \o Word.th \o Sp \o Word.century : c \in {5, 18}}
\* a year range written with spaces, with one character of a mis-decoded dash,
\* with the three characters of a mis-decoded en dash, and with an en dash
SeparatorTexts ==
    {Digits4(1840) \o sep \o Digits4(1850) :
        sep \in {<<" ", "-", " ">>, <<"U+201A">>, <<"U+00C4">>, <<"U+201A", "U+00C4", "U+00EC">>,
                 <<"U+2013">>}}
\* the date column of the input of the two scripts
CleaningTexts ==
    BCCenturyTexts
    \cup {CenturyText(n1, <<>>) : n1 \in CleaningNumerals}
    \cup {CenturyRangeText(n1, n2, <<>>) :
            n1 \in CleaningRangeNumerals, n2 \in CleaningRangeNumerals}
    \cup {PartText(part, n1, era) : part \in PartWords, n1 \in QuarterNumerals,
                                   era \in {<<>>, Sp \o Word.BC}}
    \cup {Digits4(y) \o era : y \in SampleYears, era \in Eras}
    \cup {Decimal(y) \o era : y \in BareYears, era \in Eras}
    \cup {YearRangeText(y1, y2) : y1 \in SampleYears, y2 \in SampleYears}
    \cup {DecadeText(y, era) : y \in SampleYears, era \in {<<>>, Sp \o Word.BC}}
    \cup NumericCenturyTexts \cup SeparatorTexts
    \cup BlankTexts \cup {<<"n", ".", "d", ".">>, ABSENT}

\* texts of the date column that give no year, and a missing date
NoYearTexts == {ABSENT, <<>>, <<"n", ".", "d", ".">>}
\* date_normalized as the input file has it: "YYYY", "YYYY-YYYY", and texts that
\* lines 787-792 do not read
NormalizedTexts ==
    {Digits4(y) : y \in SampleYears}
    \cup {YearRangeText(y1, y2) : y1 \in SampleYears, y2 \in SampleYears}
    \cup {Digits4(1650) \o Sp \o Word.AD, <<"n", ".", "d", ".">>}
\* year_for_timeline: missing, or a text
TimelineCells ==
    {NoCell, StrCell(<<"1", "9", "0", "0", "-", "0", "1", "-", "0", "1">>), StrCell(<<"a", "b", "c">>)}

\* the rows of the scripts: a date text in the column the script reads (date
\* stands for the column 'dating' of the Hermitage file), or a numeric
\* year_for_timeline
Rows(s) ==
    IF s \in CleaningScripts
    THEN {[year_for_timeline |-> NoCell, date |-> t, date_normalized |-> ABSENT] :
            t \in CleaningTexts}
    ELSE
    {[year_for_timeline |-> NumCell(y), date |-> ABSENT, date_normalized |-> ABSENT] :
        y \in YearValues}
    \cup IF s = "5_add_category_period"
         THEN {[year_for_timeline |-> NoCell, date |-> t, date_normalized |-> ABSENT] :
                 t \in DateTexts \cup {ABSENT}}
              \cup {[year_for_timeline |-> yft, date |-> t, date_normalized |-> n] :
                      yft \in TimelineCells, t \in NoYearTexts \cup {CenturyText(Numeral.XIX, <<>>)},
                      n \in NormalizedTexts \cup {ABSENT, <<>>}}
         ELSE IF s = "clean_hermitage_dataset"
         THEN {[year_for_timeline |-> NoCell, date |-> t, date_normalized |-> ABSENT] :
                 t \in DateTexts \cup DatingTexts \cup {ABSENT}}
         ELSE {[year_for_timeline |-> NoCell, date |-> ABSENT, date_normalized |-> t] :
                 t \in DateTexts \cup {ABSENT}}

(***************************************************************************)
(* The state machine                                                       *)
(***************************************************************************)
VARIABLES
    script,           \* the script that runs
    csv_row,          \* the row as it was read from the input file
    row,              \* the row of the data frame
    pc,               \* "start", "extracted", "normalized", "done"; "raised" when
                      \* an exception ended the script; "timeline" when the
                      \* cleaning scripts have set year_for_timeline
    year,             \* the result of the year extractor
    row_year,         \* the local year of assign_period_category
    period_category   \* the result of assign_period_category

vars == <<script, csv_row, row, pc, year, row_year, period_category>>

Pending == Lab("", "pending")

Init ==
    /\ script \in Scripts
    /\ csv_row \in Rows(script)
    /\ row = csv_row
    /\ pc = "start"
    /\ year = NONE
    /\ row_year = NONE
    /\ period_category = Pending

\* 5_add_category_period.py: extract_year_from_date(row['date'])
ExtractYearFromDate ==
    /\ script = "5_add_category_period"
    /\ pc = "start"
    /\ year' = extract_year_from_date(row.date)
    /\ pc' = IF year' = RAISED THEN "raised" ELSE "extracted"
    /\ UNCHANGED <<script, csv_row, row, row_year, period_category>>

\* 5_add_category_period.py, line 867:
\* df['date_normalized'] = df.apply(create_date_normalized, axis=1)
CreateDateNormalized ==
    /\ script = "5_add_category_period"
    /\ pc = "extracted"
    /\ row' = [row EXCEPT !.date_normalized = create_date_normalized(row)]
    /\ pc' = "normalized"
    /\ UNCHANGED <<script, csv_row, year, row_year, period_category>>

\* 5_add_category_period.py, line 873:
\* df['period_category'] = df.apply(assign_period_category, axis=1)
AssignPeriodCategory ==
    /\ script = "5_add_category_period"
    /\ pc = "normalized"
    /\ row_year' = RowYear(row)
    /\ period_category' = LabelOfYear(row_year')
    /\ pc' = "done"
    /\ UNCHANGED <<script, csv_row, row, year>>

\* add_period_categories.py: df.apply(assign_period_category, axis=1)
AssignPeriodCategoryAdd ==
    /\ script = "add_period_categories"
    /\ pc = "start"
    /\ row_year' = RowYear_add(row)
    /\ period_category' = LabelOfYear_add(row_year')
    /\ pc' = "done"
    /\ UNCHANGED <<script, csv_row, row, year>>

\* clean_hermitage_dataset.py, step 3:
\* df['date_normalized'] = df['dating'].apply(normalize_dating)
NormalizeDating ==
    /\ script = "clean_hermitage_dataset"
    /\ pc = "start"
    /\ row.year_for_timeline = NoCell
    /\ row' = [row EXCEPT !.date_normalized = normalize_dating(row.date)]
    /\ pc' = "normalized"
    /\ UNCHANGED <<script, csv_row, year, row_year, period_category>>

\* clean_hermitage_dataset.py, step 4:
\* df['year_for_timeline'] = df['date_normalized'].apply(extract_year_from_dating)
ExtractYearFromDating ==
    /\ script = "clean_hermitage_dataset"
    /\ pc = "normalized"
    /\ year' = extract_year_from_dating(row.date_normalized)
    /\ row' = [row EXCEPT !.year_for_timeline =
                   IF year'.rule = "none" THEN NoCell ELSE NumCell(year'.val)]
    /\ pc' = "extracted"
    /\ UNCHANGED <<script, csv_row, row_year, period_category>>

\* clean_hermitage_dataset.py, step 5:
\* df['period_category'] = df['year_for_timeline'].apply(assign_period_category)
AssignPeriodCategoryHermitage ==
    /\ script = "clean_hermitage_dataset"
    /\ pc = "extracted" \/ (pc = "start" /\ row.year_for_timeline # NoCell)
    /\ row_year' = (IF row.year_for_timeline.k = "num"
                    THEN Ret("year_for_timeline", row.year_for_timeline.v) ELSE NONE)
    /\ period_category' = assign_period_category_hermitage(row_year')
    /\ pc' = "done"
    /\ UNCHANGED <<script, csv_row, row, year>>

\* 2_cleaning_stolen_objects.py, line 390, stolen_objects_normalization.py,
\* line 264: df['date_normalized'] = df['date'].apply(normalize_date)
NormalizeDate ==
    /\ script \in CleaningScripts
    /\ pc = "start"
    /\ row' = [row EXCEPT !.date_normalized = normalize_date(row.date).val]
    /\ pc' = "normalized"
    /\ UNCHANGED <<script, csv_row, year, row_year, period_category>>

\* 2_cleaning_stolen_objects.py, line 405:
\* df['year_for_timeline'] = df['date_normalized'].apply(calculate_midpoint_year)
CalculateMidpointYear ==
    /\ script = "2_cleaning_stolen_objects"
    /\ pc = "normalized"
    /\ year' = calculate_midpoint_year(row.date_normalized)
    /\ row' = [row EXCEPT !.year_for_timeline =
                   IF year'.rule = "none" THEN NoCell ELSE NumCell(year'.val)]
    /\ pc' = "timeline"
    /\ UNCHANGED <<script, csv_row, row_year, period_category>>

\* stolen_objects_normalization.py, line 267:
\* df['year_for_timeline'] = df['date_normalized'].apply(get_year_for_timeline)
GetYearForTimeline ==
    /\ script = "stolen_objects_normalization"
    /\ pc = "normalized"
    /\ year' = get_year_for_timeline(row.date_normalized)
    /\ row' = [row EXCEPT !.year_for_timeline =
                   IF year'.rule = "none" THEN NoCell ELSE NumCell(year'.val)]
    /\ pc' = "timeline"
    /\ UNCHANGED <<script, csv_row, row_year, period_category>>

Next ==
    \/ NormalizeDate
    \/ CalculateMidpointYear
    \/ GetYearForTimeline
    \/ ExtractYearFromDate
    \/ CreateDateNormalized
    \/ AssignPeriodCategory
    \/ AssignPeriodCategoryAdd
    \/ NormalizeDating
    \/ ExtractYearFromDating
    \/ AssignPeriodCategoryHermitage

Spec == Init /\ [][Next]_vars

(***************************************************************************)
(* Properties                                                              *)
(***************************************************************************)
Stolen == "5_add_category_period"
Hermitage == "clean_hermitage_dataset"

\* the value of a Roman numeral, by the subtractive rule
SymbolValue(c) == CASE c = "I" -> 1 [] c = "V" -> 5 [] c = "X" -> 10

RECURSIVE RomanValue(_)
RomanValue(r) ==
    IF r = <<>> THEN 0
    ELSE IF Len(r) >= 2 /\ SymbolValue(r[1]) < SymbolValue(r[2])
         THEN RomanValue(Tail(r)) - SymbolValue(r[1])
         ELSE SymbolValue(r[1]) + RomanValue(Tail(r))

\* the midpoint year of the n-th century: 100 * n - 50
CenturyMidpoint(r) == 100 * RomanValue(r) - 50

\* the text carries a BC marker
HasBC(text) == Contains(Upper(text), Word.BC)

\* the date text as the recognizers see it
Cleaned(text) == normalize_cyrillic_to_latin(Strip(text))

\* the recognizers the sign invariant is stated for: all but "thousand years ago"
SignRules == {"lone_roman_match", "single_roman_match", "year_only_range", "year_only",
              "end_range_match", "quarter_century_match", "wrong_format",
              "century_space_range", "early_th_match", "early_arabic_cent", "slash_range",
              "complex_slash", "or_alternative", "year_g", "ordinal_range",
              "beginning_ordinal", "half_ordinal", "millennium_single_match",
              "millennium_match", "decade_range_match", "decade_match",
              "part_of_century_match", "quarter_range_match", "century_bc", "century_ad",
              "range_match", "complex_match", "year_range_match", "year_match"}

\* C1: whenever extract_year_from_date returns a number, the number is negative
\* if the text carries a BC marker and non-negative if it carries none,
\* whichever recognizer returned it.
C1_SignInvariant ==
    (script = Stolen /\ pc # "start" /\ year.rule \in SignRules)
        => IF HasBC(row.date) THEN year.val < 0 ELSE year.val >= 0

\* C2: for every numeral N of the century table, "N century BC" gives
\* -(100*N - 50).
C2_BCECentury ==
    \A n1 \in SupportedNumerals :
        (script = Stolen /\ pc # "start" /\ row.date = CenturyText(n1, Sp \o Word.BC))
            => year.rule # "none" /\ year.val = -Whole(CenturyMidpoint(n1))

\* C3: for every numeral N of the century table, "N century" gives 100*N - 50,
\* "first half of N century" gives 100*N - 50 - 38 and "second half of N
\* century" gives 100*N - 50 + 12, each returned by its own recognizer (the
\* single-century loop, the part-of-century recognizer) and by no earlier one.
C3_CenturyOffset ==
    \A n1 \in SupportedNumerals :
        (script = Stolen /\ pc # "start")
            => /\ row.date = CenturyText(n1, <<>>)
                    => year = Ret("century_ad", Whole(CenturyMidpoint(n1)))
               /\ row.date = PartText(Word.first_half, n1, <<>>)
                    => year = Ret("part_of_century_match", Whole(CenturyMidpoint(n1) - 38))
               /\ row.date = PartText(Word.second_half, n1, <<>>)
                    => year = Ret("part_of_century_match", Whole(CenturyMidpoint(n1) + 12))

C3_Witness ==
    /\ script = Stolen /\ pc = "extracted"
    /\ row.date = PartText(Word.second_half, Numeral.XIX, <<>>)
    /\ year.val = Whole(1862)

\* C4: for every pair of four-digit years Y1, Y2, "Y1-Y2" gives exactly
\* (Y1 + Y2) / 2, a fractional value when Y1 + Y2 is odd.
C4_RangeMidpoint ==
    \A y1 \in SampleYears, y2 \in SampleYears :
        (script = Stolen /\ pc # "start" /\ row.date = YearRangeText(y1, y2))
            => year.rule # "none" /\ 2 * year.val = Whole(y1 + y2)

C4_Witness ==
    /\ script = Stolen /\ pc = "extracted"
    /\ row.date = YearRangeText(1841, 1850)
    /\ year.val = Whole(1845) + 2

\* C5: for every two numerals N, M of the century table, "N-M century" and
\* "N-M century AD" give the midpoint of the two century midpoints, and
\* "N-M century BC" its negation.
C5_CenturyRange ==
    \A n1 \in RangeNumerals, n2 \in RangeNumerals, era \in Eras :
        (script = Stolen /\ pc # "start" /\ row.date = CenturyRangeText(n1, n2, era))
            => /\ year.rule # "none"
               /\ year.val = Signed(era = Sp \o Word.BC,
                                    HalfOf(CenturyMidpoint(n1) + CenturyMidpoint(n2)))

\* the period table of a script and the names it gives the two periods
TableOf(s) ==
    CASE s = Stolen -> HISTORICAL_PERIODS
      [] s = "add_period_categories" -> HISTORICAL_PERIODS_add
      [] s = Hermitage -> HISTORICAL_PERIODS_hermitage

MongolName == "Mongol Invasion and Domination"
GaliciaName(s) == IF s = Stolen THEN "Kingdom of Galicia-Volhynia"
                  ELSE "Kingdom of Galicia-Volhynia/Ruthenia"

\* the entry of a table with a name
PeriodNamed(table, name) == table[CHOOSE k \in 1..Len(table) : table[k].name = name]

\* the inclusive interval of a period contains the stored number y
InPeriod(p, y) == Whole(p.start) <= y /\ y <= Whole(p.end)

\* C6: in the three scripts, for every year contained both in the interval of
\* 'Mongol Invasion and Domination' and in the interval of 'Kingdom of
\* Galicia-Volhynia', assign_period_category returns the Mongol label when
\* year < 1300 and the Galicia-Volhynia label otherwise.
C6_MongolGalicia ==
    LET mongol == PeriodNamed(TableOf(script), MongolName)
        galicia == PeriodNamed(TableOf(script), GaliciaName(script))
    IN (pc = "done" /\ row_year.rule # "none"
        /\ InPeriod(mongol, row_year.val) /\ InPeriod(galicia, row_year.val))
           => period_category.label =
                  IF row_year.val < Whole(1300) THEN mongol.label ELSE galicia.label

C6_Witness ==
    /\ script = Stolen /\ pc = "done"
    /\ row_year.val = Whole(1250)
    /\ Len(MatchingPeriods(HISTORICAL_PERIODS, row_year.val)) = 2
    /\ period_category.label = "Mongol Invasion and Domination"

\* C7: in 5_add_category_period.py every year that lies in two or more period
\* intervals is decided by one of the named pairwise rules; the final default
\* 'return matching_periods[0]' is never reached.
C7_DefaultUnreachable ==
    (script = Stolen /\ pc = "done") => period_category.by # "default"

\* C8: in the three scripts, a numeric year that lies in no interval of the
\* period table is labelled 'Pre-Neolithic Period' when it is before the
\* earliest entry and 'Contemporary Period' when it is after the latest, and
\* never 'Unknown Period'.
C8_BoundaryFallback ==
    LET table == TableOf(script)
        before == \A k \in 1..Len(table) : row_year.val < Whole(table[k].start)
        after == \A k \in 1..Len(table) : row_year.val > Whole(table[k].end)
    IN (pc = "done" /\ row_year.rule # "none"
        /\ MatchingPeriods(table, row_year.val) = <<>>)
           => /\ period_category.label \in {"Pre-Neolithic Period", "Contemporary Period"}
              /\ before => period_category.label = "Pre-Neolithic Period"
              /\ after => period_category.label = "Contemporary Period"

\* C9: in clean_hermitage_dataset.py, for every pair of four-digit years Y1, Y2
\* extract_year_from_dating("Y1-Y2") is the range midpoint (Y1 + Y2) // 2, not Y1.
C9_RangeNotPreempted ==
    \A y1 \in SampleYears, y2 \in SampleYears :
        (script = Hermitage /\ pc = "extracted" /\ row.date_normalized = YearRangeText(y1, y2))
            => year.rule # "none" /\ year.val = Whole((y1 + y2) \div 2)

\* C10: whenever a text is matched both by the century-range-with-quarter
\* recognizer and by the single-century-with-qualifier recognizer,
\* extract_year_from_date returns the year of the century-range recognizer.
C10_QuarterRangeFirst ==
    (script = Stolen /\ pc # "start" /\ row.date # ABSENT
     /\ quarter_range_match(Cleaned(row.date)).rule # "none"
     /\ part_of_century_match(Cleaned(row.date)).rule # "none")
        => year.val = quarter_range_match(Cleaned(row.date)).val

\* the offset of a quarter of a century from the midpoint of the century
ConventionOffset(qw) ==
    CASE qw = Word.first -> -38 [] qw = Word.second -> -12
      [] qw = Word.third -> 12 [] qw = Word.fourth -> 38

\* C11: in the three recognizers that accept a quarter qualifier on a century
\* ("N - Q quarter M centuries", "N - Q q. M century", "Q1 quarter of the N -
\* Q2 of the M century"), the quarters first, second, third and fourth shift
\* the midpoint of their century by -38, -12, +12 and +38 before the midpoint
\* of the range is taken.
C11_QuarterOffsets ==
    \A n1 \in QuarterNumerals, n2 \in QuarterNumerals, qw \in OrdinalQuarters :
        (script = Stolen /\ pc # "start")
            => /\ row.date \in {QuarterCenturyText(n1, qw, n2, <<>>),
                                QuarterRangeText(<<>>, n1, qw, n2, <<>>)}
                    => year.val = HalfOf(CenturyMidpoint(n1) + CenturyMidpoint(n2)
                                         + ConventionOffset(qw))
               /\ \A q2 \in OrdinalQuarters :
                    row.date = OrdinalRangeText(qw, n1, q2, n2)
                        => year.val = HalfOf(CenturyMidpoint(n1) + ConventionOffset(qw)
                                             + CenturyMidpoint(n2) + ConventionOffset(q2))

\* C12: a single year Y of one to four digits gives Y with the suffix AD and
\* -Y with the suffix BC, whatever its magnitude; without a suffix a year
\* under 500 is taken as CE, and a year of one to three digits of 500 or more
\* gives no year.
C12_BareYearEra ==
    (script = Stolen /\ pc # "start")
        => /\ \A y \in BareYears \cup SampleYears :
                \A text \in {Decimal(y), Digits4(y)} :
                    /\ row.date = text \o Sp \o Word.AD => year.val = Whole(y) /\ year # NONE
                    /\ row.date = text \o Sp \o Word.BC => year.val = Whole(-y) /\ year # NONE
           /\ \A y \in BareYears :
                row.date = Decimal(y) => IF y < 500 THEN year.val = Whole(y) /\ year # NONE
                                                   ELSE year = NONE

\* C13: every dash-like character is the range separator: a text whose
\* hyphens are written as en dashes, em dashes or minus signs gives the year
\* that the text with hyphens gives.
C13_DashNormalization ==
    (script = Stolen /\ pc # "start" /\ row.date \in DashTexts)
        => With(extract_year_from_date(ToHyphen(row.date)), LAMBDA hyphenated :
                year.val = hyphenated.val /\ (year = NONE <=> hyphenated = NONE))

\* a row without a text in date and without a value in the other two columns
BlankRow(r) ==
    /\ r.year_for_timeline = NoCell
    /\ r.date \in BlankTexts \cup {ABSENT}
    /\ r.date_normalized \in {ABSENT, <<>>}

\* C14: for an empty, absent or whitespace-only date text, and no other year
\* column in the row, extract_year_from_date returns None without a
\* recognizer having matched, create_date_normalized returns the empty text
\* and assign_period_category returns 'Unknown Period'.
C14_UnknownPropagation ==
    (script = Stolen /\ BlankRow(csv_row))
        => /\ pc # "start" => year = NONE
           /\ pc \in {"normalized", "done"} => row.date_normalized = <<>>
           /\ pc = "done" => row_year = NONE /\ period_category = Lab("Unknown Period", "no_year")

C14_Witness ==
    /\ script = Stolen /\ pc = "done"
    /\ BlankRow(csv_row) /\ csv_row.date = <<" ", "\t", " ">>
    /\ row.date_normalized = <<>>
    /\ period_category.label = "Unknown Period"

\* the labels assign_period_category may return
ClosedLabels ==
    {HISTORICAL_PERIODS[k].label : k \in 1..Len(HISTORICAL_PERIODS)}
    \cup {"Unknown Period", "Pre-Neolithic Period", "Contemporary Period"}

\* C15: for every row, assign_period_category ends without raising and returns
\* a label of HISTORICAL_PERIODS or one of 'Unknown Period', 'Pre-Neolithic
\* Period' and 'Contemporary Period'.
C15_TotalClosedLabels ==
    script = Stolen
        => /\ pc # "raised"
           /\ pc = "done" => period_category.label \in ClosedLabels

\* C16: a decade text "NNNNs" gives NNNN + 5 and "NNNNs BC" gives -(NNNN + 5),
\* "1920s" gives 1925, and it is the decade recognizer that answers: no
\* recognizer before it in the cascade takes the text.
C16_Decade ==
    \A y \in SampleYears :
        (script = Stolen /\ pc # "start")
            => /\ row.date = DecadeText(y, <<>>) => year = Ret("decade_match", Whole(y + 5))
               /\ row.date = DecadeText(y, Sp \o Word.BC)
                    => year = Ret("decade_match", -Whole(y + 5))

C16_Witness ==
    /\ script = Stolen /\ pc = "extracted"
    /\ row.date = <<"1", "9", "2", "0", "s">>
    /\ year = Ret("decade_match", Whole(1925))

\* the text t with Latin letters in the place of the Cyrillic look-alikes
Latinize(t) ==
    Replace(Replace(Replace(Replace(Replace(t, <<"U+0425">>, <<"X">>), <<"U+0406">>, <<"I">>),
                            <<"U+0412">>, <<"B">>), <<"U+0421">>, <<"C">>), <<"U+0443">>, <<"y">>)

\* C17: a text written with Cyrillic look-alikes gives the year of the text in
\* Latin letters; normalize_cyrillic_to_latin is idempotent and returns a
\* missing value and the empty text unchanged.
C17_CyrillicLookAlikes ==
    (script = Stolen /\ pc # "start")
        => /\ row.date \in CyrillicTexts => year = extract_year_from_date(Latinize(row.date))
           /\ With(normalize_cyrillic_to_latin(row.date), LAMBDA once :
                 /\ normalize_cyrillic_to_latin(once) = once
                 /\ row.date \in {ABSENT, <<>>} => once = row.date)

C17_Witness ==
    /\ script = Stolen /\ pc = "extracted"
    /\ row.date = Cyrillize(CenturyText(Numeral.XIX, <<>>))
    /\ row.date # CenturyText(Numeral.XIX, <<>>)
    /\ year = Ret("century_ad", Whole(1850))

\* C19: in main() the third source is effective: a row without
\* year_for_timeline, whose date is missing or gives no year and whose
\* date_normalized in the input file is "YYYY" or "YYYY-YYYY", ends with the
\* period of that year (of the midpoint of the range), although main() has
\* rewritten the column date_normalized before.
C19_ThirdSourceEffective ==
    (/\ script = Stolen /\ pc = "done"
     /\ csv_row.year_for_timeline = NoCell /\ csv_row.date \in NoYearTexts)
        => \A y1 \in SampleYears :
            /\ csv_row.date_normalized = Digits4(y1)
                => period_category.label = ClassifyYear(Whole(y1)).label
            /\ \A y2 \in SampleYears :
                csv_row.date_normalized = YearRangeText(y1, y2)
                    => period_category.label = ClassifyYear(HalfOf(y1 + y2)).label

\* C20: "N century BC - M century" gives the midpoint between the century N
\* BCE and the century M CE, (-(100 N - 50) + (100 M - 50)) / 2, and it is the
\* recognizer of this format that answers, not the recognizer of a single
\* century BC before it in the cascade.
C20_ComplexRange ==
    \A n1 \in RangeNumerals, n2 \in RangeNumerals :
        (script = Stolen /\ pc # "start" /\ row.date = ComplexRangeText(n1, n2))
            => year = Ret("complex_match", HalfOf(-CenturyMidpoint(n1) + CenturyMidpoint(n2)))

KievanName == "Kievan Rus' Period"

\* C21: in the three scripts, for every year contained both in the interval of
\* 'Kievan Rus' Period' and in the interval of 'Kingdom of Galicia-Volhynia',
\* assign_period_category returns the Kievan Rus' label, also for the years
\* 1239-1240 that the Mongol interval contains too.
C21_KievanPrecedence ==
    LET kievan == PeriodNamed(TableOf(script), KievanName)
        galicia == PeriodNamed(TableOf(script), GaliciaName(script))
    IN (pc = "done" /\ row_year.rule # "none"
        /\ InPeriod(kievan, row_year.val) /\ InPeriod(galicia, row_year.val))
           => period_category.label = kievan.label

Max(a, b) == IF a > b THEN a ELSE b

\* year_for_timeline is a negative number between the first year that
\* normalize_date writes for the century n1 BC and the last year it writes
\* for the century n2 BC
InSpanBC(n1, n2) ==
    LET first == -(100 * RomanValue(n1) - 99)
        last == -(100 * RomanValue(n2) - 100)
    IN /\ row.year_for_timeline.k = "num"
       /\ row.year_for_timeline.v < 0
       /\ Whole(Min(first, last)) <= row.year_for_timeline.v
       /\ row.year_for_timeline.v <= Whole(Max(first, last))

\* C22: for every century text marked BC that normalize_date converts ("N
\* century BC", "N-M century BC", numerals I to XXV), the timeline step of the
\* script (calculate_midpoint_year, get_year_for_timeline) applied to the
\* result of normalize_date gives a negative number inside the normalized
\* range, never NaN.
C22_BCSurvivesCleaning ==
    (script \in CleaningScripts /\ pc = "timeline")
        => /\ \A n1 \in CleaningNumerals :
                row.date = CenturyText(n1, Sp \o Word.BC) => InSpanBC(n1, n1)
           /\ \A n1 \in CleaningRangeNumerals, n2 \in CleaningRangeNumerals :
                row.date = CenturyRangeText(n1, n2, Sp \o Word.BC) => InSpanBC(n1, n2)

\* the text is four digits, "YYYY"
IsYYYY(t) == Len(t) = 4 /\ \A i \in 1..4 : t[i] \in Digits
\* the text is "YYYY-YYYY"
IsYYYYRange(t) ==
    Len(t) = 9 /\ t[5] = "-" /\ IsYYYY(SubSeq(t, 1, 4)) /\ IsYYYY(SubSeq(t, 6, 9))

\* C23: for every non-empty date the result of normalize_date is "YYYY" or
\* "YYYY-YYYY", and normalize_date applied to its own result returns that
\* result unchanged.
C23_NormalizedFormat ==
    (script \in CleaningScripts /\ pc # "start"
     /\ row.date # ABSENT /\ Strip(row.date) # <<>>)
        => /\ IsYYYY(row.date_normalized) \/ IsYYYYRange(row.date_normalized)
           /\ normalize_date(row.date_normalized).val = row.date_normalized

\* C24: normalize_dating puts exactly one space between the century word and
\* the era and removes the prefix "sec.floor.", whatever stands between the
\* word and the era in the file (nothing, a period, a space): "IV centuryBC"
\* becomes "IV century BC", "VI - V centuries.BC" becomes "VI-V centuries BC",
\* "sec.floor.VIII-VI centuriesBC" becomes "VIII-VI centuries BC".
C24_EraSeparated ==
    (script = Hermitage /\ pc # "start")
        => /\ \A prefix \in Prefixes, n1 \in TenNumerals, gap \in Gaps :
                row.date = GluedCenturyText(prefix, n1, gap)
                    => row.date_normalized = CenturyText(n1, Sp \o Word.BC)
           /\ \A prefix \in Prefixes, n1 \in QuarterNumerals, n2 \in QuarterNumerals,
                 sep \in {<<"-">>, <<" ", "-", " ">>}, gap \in Gaps :
                row.date = GluedRangeText(prefix, n1, sep, n2, gap)
                    => row.date_normalized = CenturiesRangeText(n1, n2, Sp \o Word.BC)

\* the stored number v lies in the signed span of the century n1: the years
\* 100(N-1)+1 .. 100N, and -100N .. -(100(N-1)+1) before the era
InCentury(v, n1, bc) ==
    IF bc THEN Whole(-100 * RomanValue(n1)) <= v /\ v <= Whole(-(100 * (RomanValue(n1) - 1) + 1))
    ELSE Whole(100 * (RomanValue(n1) - 1) + 1) <= v /\ v <= Whole(100 * RomanValue(n1))

\* C25: for every numeral N of the century table and both eras, the years of
\* "beginning of N century", "middle of N century" and "end of N century" are
\* in this order, the earliest first, and the three lie in the signed span of
\* the century; before the era the end of a century is a greater (less
\* negative) year than its beginning.
C25_QualifierOrder ==
    \A n1 \in SupportedNumerals, era \in {<<>>, Sp \o Word.BC} :
        (script = Stolen /\ pc # "start" /\ row.date = PartText(Word.beginning, n1, era))
            => LET middle == extract_year_from_date(PartText(Word.middle, n1, era))
                   end == extract_year_from_date(PartText(Word.end, n1, era))
               IN /\ year.rule # "none" /\ middle.rule # "none" /\ end.rule # "none"
                  /\ year.val < middle.val /\ middle.val < end.val
                  /\ InCentury(year.val, n1, era # <<>>)
                  /\ InCentury(middle.val, n1, era # <<>>)
                  /\ InCentury(end.val, n1, era # <<>>)

\* the label assign_period_category gives to each boundary year of the tables
LabelAtBoundary == [b \in BoundaryYears |-> ClassifyYear(Whole(b)).label]

\* C26: every label of 5_add_category_period.py covers one contiguous range of
\* years: a year between two years of the same label has that label too, so a
\* label does not give way to another period and come back later.
C26_ContiguousLabels ==
    (script = Stolen /\ pc = "done" /\ row_year.rule # "none")
        => \A y1, y3 \in BoundaryYears :
               (Whole(y1) < row_year.val /\ row_year.val < Whole(y3)
                /\ LabelAtBoundary[y1] = LabelAtBoundary[y3])
                   => period_category.label = LabelAtBoundary[y1]

\* C27: for every numeral N of the century table the date "N centuries" (one
\* numeral, plural word) has the year 100*N - 50 or no year; it is never
\* read as a range of two shorter numerals cut out of N.
C27_NumeralNotSplit ==
    \A n1 \in SupportedNumerals :
        (script = Stolen /\ pc # "start" /\ row.date = CenturiesText(n1))
            => \/ year.rule = "none"
               \/ year.val = Whole(100 * RomanValue(n1) - 50)

\* the shapes of date both extractors read: "N century", "N century BC",
\* "N-M centuries", "N-M centuries BC", "N-M millennium BC", "YYYY" and
\* "YYYY-YYYY", N and M from I to X
SharedShapes ==
    {CenturyText(n1, era) : n1 \in TenNumerals, era \in {<<>>, Sp \o Word.BC}}
    \cup {CenturiesRangeText(n1, n2, era) :
            n1 \in TenNumerals, n2 \in TenNumerals, era \in {<<>>, Sp \o Word.BC}}
    \cup {MillenniumRangeText(n1, n2) : n1 \in TenNumerals, n2 \in TenNumerals}
    \cup {Digits4(y) : y \in SampleYears}
    \cup {YearRangeText(y1, y2) : y1 \in SampleYears, y2 \in SampleYears}

\* C28: on a date of a shape both extractors read, the year
\* extract_year_from_dating takes from normalize_dating(date) in
\* clean_hermitage_dataset.py is the year extract_year_from_date of
\* 5_add_category_period.py returns for the same date, whenever both return a
\* number.
C28_ExtractorsAgree ==
    (script = Hermitage /\ pc = "extracted" /\ row.date \in SharedShapes
     /\ year.rule # "none")
        => With(extract_year_from_date(row.date), LAMBDA stolen_year :
               (stolen_year # RAISED /\ stolen_year.rule # "none")
                   => stolen_year.val = year.val)

\* the entries of the table of the script whose interval contains the year of
\* the row, as indices of the table
Containing == {k \in 1..Len(TableOf(script)) : InPeriod(TableOf(script)[k], row_year.val)}

\* C29: for every numeric year the classifier goes through the whole table:
\* the no-match labels are returned exactly when no entry contains the year,
\* the single-match return exactly when one entry does, the default return
\* gives the first containing entry in table order, and whenever some entry
\* contains the year the returned label is the label of a containing entry.
C29_CollectsAllPicksAmong ==
    (pc = "done" /\ script \in {Stolen, Hermitage, "add_period_categories"}
     /\ row_year # RAISED /\ row_year.rule # "none")
        => /\ (Containing = {}) <=> (period_category.by \in {"before", "after", "gap"})
           /\ (Cardinality(Containing) = 1) <=> (period_category.by = "single")
           /\ period_category.by = "default"
                  => \E k \in Containing :
                         /\ \A j \in Containing : k <= j
                         /\ period_category.label = TableOf(script)[k].label
           /\ Containing # {}
                  => \E k \in Containing : period_category.label = TableOf(script)[k].label

\* a year in three intervals (Kievan Rus', Mongol, Galicia-Volhynia) was labelled
C29_Witness ==
    /\ pc = "done" /\ script \in {Stolen, Hermitage}
    /\ row_year # RAISED /\ row_year.rule # "none"
    /\ Cardinality(Containing) = 3
    /\ period_category.by = "mongol_galicia"

====
